---- MODULE Spec2Model ----
(***************************************************************************)
(* Application-submission engine of the job automation bot:                *)
(*   - the Submission Verifier (verifySubmission / submitApplicationForm), *)
(*   - the Platform Handler pipeline (Workday, Lever, LinkedIn, Generic)   *)
(*     behind the dispatcher handleExternalCareerSite,                     *)
(*   - the Session/Tab manager (clickApplyButton, cleanupTabs) together    *)
(*     with the page handle a dispatched platform handler binds.           *)
(* together with the batch loops, the form fill, the captcha dispatch, the *)
(* application modals, the button scans, the fill counters, the Workday    *)
(* credentials store, the result sinks, the result log and the counters   *)
(* of a run, the dispatcher and the verifier decision on their own, and    *)
(* the error handler.                                                      *)
(* The specifications share the variables of the module; each one starts   *)
(* the groups it does not use idle and leaves them unchanged:              *)
(* SpecVerify, SpecHandler, Spec, SpecBatch, SpecFill, SpecCaptcha,        *)
(* SpecModal, SpecScan, SpecCount, SpecCreds, SpecSinks, SpecRun,          *)
(* SpecDispatch, SpecDecision, SpecTally, SpecErrors.                      *)
(***************************************************************************)
EXTENDS Integers, Sequences, FiniteSets, TLC

VARIABLES
    \* ---- Submission Verifier (SpecVerify) ----
    page,           \* the post-submit page the verifier looks at
    vpc,            \* "loaded" -> "verified" -> "returned"
    verification,   \* what verifySubmission returned
    submitResult,   \* what submitApplicationForm returned
    \* ---- Platform Handler pipeline (SpecHandler) ----
    extUrl,         \* destination URL handed to the dispatcher
    platform,       \* handler variant selected by the dispatcher
    hpc,            \* position of the handler invocation
    trace,          \* pipeline states executed so far, in order
    failedAt,       \* pipeline state that reported failure, or "none"
    loginVia,       \* how LoginOrAccountResolution was passed, or "none"
    result,         \* what the invocation handed to its caller
    submitClicked,  \* a submit control was clicked in this attempt
    verifierOk,     \* verifySubmission judged the page submitted in this attempt
    loginAttempt,   \* what loginToWorkday reported and the flow handleLogin ended in
    formFilled,     \* the form fill of the handler ran
    challengeCalls, \* the places where the handler run invoked handleCaptcha
    formSeen,       \* what the form detection of the handler found
    \* ---- Session / Tab manager (Spec) ----
    tabs,           \* ids of the open tabs, in enumeration (creation) order
    url,            \* address of every open tab
    nextId,         \* id the next opened tab gets
    mainPage,       \* the orchestrator's current page handle (a tab id)
    handlerPage,    \* the dispatched platform handler's page handle, or NoPage
    opc,            \* position inside applyToJobWithAI
    lastOp,         \* last session operation and the branch it took
    snapshot,       \* context.pages() as the last clickApplyButton enumerated it
    before,         \* open tabs and current handle when the last operation started
    \* ---- Batch loop (SpecBatch) ----
    driver,         \* which batch loop runs
    maxApplications,\* its explicit maximum
    jobs,           \* scores of the discovered jobs, in list order
    jobIdx,         \* candidates the loop has gone past
    applicationsCompleted, \* successful applications so far
    attemptsStarted,\* application attempts started so far
    caught,         \* per-job exceptions caught so far
    bpc,            \* "loop" -> "done" | "thrown"
    \* ---- Form fill and submit of one generic attempt (SpecFill) ----
    fpc,            \* position inside fillBasicInformation / submitApplicationForm
    fillCalls,      \* invocations of fillBasicInformation in this fill operation
    reprobes,       \* re-probes for fields after a pass that found none
    navRetries,     \* retries after a navigation error
    inTrySite,      \* some enclosing invocation waits inside its try block
    prev,           \* the step executed last
    fillOutcome,    \* what the fill operation handed to its caller
    \* ---- One call of handleCaptcha (SpecCaptcha) ----
    markers,        \* challenge types whose markers the page shows
    cpc,            \* "detect" -> "handle" -> "done"
    handledAs,      \* the sub-handler handleCaptcha dispatched to
    clicked,        \* the sub-handler clicked a checkbox or challenge frame
    after,          \* the page state isCaptchaSolved probed, if it was asked
    captchaResult,  \* what handleCaptcha returned
    \* ---- Application modal of a class handler (SpecModal) ----
    modalPlatform,  \* the handler whose modal routine runs
    modalButtons,   \* texts of the modal controls, in the order the routine scans them
    selectedButton, \* index of the control the routine clicked, or 0
    mpc,            \* "open" -> "done"
    \* ---- Control scans: external apply button and submit button (SpecScan) ----
    scanMode,       \* "apply" or "submit": which routine scans the page
    controls,       \* the clickable controls of the page, in document order
    hasFormFields,  \* the page shows a form or a fillable field
    clickedControl, \* index of the control the click landed on, or 0
    scanResult,     \* what the scanning routine returned
    spc,            \* "page" -> "scanned" -> "dispatch" | "form" | "failed" -> "done"
    \* ---- Field fill pass and its filledCount (SpecCount) ----
    routine,        \* "main", "platform" or "frame": which fill routine runs
    fields,         \* the fields the routine iterates, in document order
    cursor,         \* number of fields the pass has gone through
    touched,        \* per field gone through: counted or not, notifications raised
    filledCount,    \* the counter of the pass
    reported,       \* the count the routine returned, once it has returned
    qpc,            \* "pass" -> "returned"
    \* ---- Workday credentials store across sequential logins (SpecCreds) ----
    credStore,      \* keys of the entries of workday_credentials.json
    verifiedLogins, \* companies whose login checkLoginStatus has verified
    savedFor,       \* companies whose verified login was followed by a completed save
    unverifiedWrites,\* keys written without a verified login in the same attempt
    logins,         \* login attempts made so far
    lastLogin,      \* company, outcome and store I/O of the last login attempt
    rpc,            \* "idle" -> "create" | "reset" -> "idle"
    \* ---- Result sinks: submissions.json and the answer log ai_learning.json (SpecSinks) ----
    submissions,    \* entries of data/submissions.json, in file order
    qaPairs,        \* qa_pairs of data/ai_learning.json, in file order
    submissionsBefore,\* submissions as they were before the last sink operation
    qaPairsBefore,  \* qa_pairs as they were before the last sink operation
    sinkOp,         \* the last sink operation
    sinkWrites,     \* sink operations made so far
    \* ---- One run of a batch driver over the discovered jobs, with its result log (SpecRun) ----
    runDriver,      \* "discoverAndApplyToJobs" or "testBatchApplications"
    runMaximum,     \* maxApplications of discoverAndApplyToJobs
    discovered,     \* the jobs discoverJobs returned, one per card
    work,           \* the list the loop iterates: highScoringJobs or uniqueJobs
    jobAt,          \* jobs of work the loop has gone past
    handed,         \* the jobs handed to the application pipeline, in order
    outcomes,       \* per attempt, the record as it was when its outcome was set
    resultLog,      \* this.applications or results.applications
    upc,            \* "select" -> "loop" -> "done"
    \* ---- Platform Dispatcher over repeated classifications (SpecDispatch) ----
    lastUrl,        \* the destination URL of the last classification
    lastVariant,    \* the handler variant the last classification selected
    classified,     \* every (url, variant) the dispatcher has produced so far
    classifyCalls,  \* classifications made so far
    \* ---- The verifier decision under a raised score (SpecDecision) ----
    signals,        \* the verification data the decision is taken on
    raisedScore,    \* the score that was raised: "none", "successScore" or "failureScore"
    verdictBefore,  \* the decision before the score was raised
    verdictAfter,   \* the decision on the data with the raised score
    \* ---- Result counters of the batch test drivers (SpecTally) ----
    tallyDriver,    \* "testBatchApplications" or "runBatchApplications"
    toProcess,      \* jobs the loop of the driver iterates
    processed,      \* jobs the loop has gone past
    successful,     \* results.successful
    failed,         \* results.failed
    records,        \* length of results.applications or results.details
    lastPass,       \* how the last pass of the loop body went
    \* ---- ErrorHandler over its lifetime (SpecErrors) ----
    errorCounts,    \* this.errorCounts: occurrences counted per error key
    retriesAdvised, \* per error key, the calls that returned shouldRetry = true
    lastAdvice,     \* key, occurrence and shouldRetry of the last call of handle
    handleCalls     \* calls of handle so far

verifyVars  == <<page, vpc, verification, submitResult>>
handlerVars == <<extUrl, platform, hpc, trace, failedAt, loginVia, result, submitClicked,
                 verifierOk, loginAttempt, formFilled, challengeCalls, formSeen>>
tabVars     == <<tabs, url, nextId, mainPage, handlerPage, opc, lastOp, snapshot, before>>
batchVars   == <<driver, maxApplications, jobs, jobIdx, applicationsCompleted,
                 attemptsStarted, caught, bpc>>
fillVars    == <<fpc, fillCalls, reprobes, navRetries, inTrySite, prev, fillOutcome>>
captchaVars == <<markers, cpc, handledAs, clicked, after, captchaResult>>
modalVars   == <<modalPlatform, modalButtons, selectedButton, mpc>>
scanVars    == <<scanMode, controls, hasFormFields, clickedControl, scanResult, spc>>
countVars   == <<routine, fields, cursor, touched, filledCount, reported, qpc>>
credsVars   == <<credStore, verifiedLogins, savedFor, unverifiedWrites, logins, lastLogin, rpc>>
sinksVars   == <<submissions, qaPairs, submissionsBefore, qaPairsBefore, sinkOp, sinkWrites>>
runVars     == <<runDriver, runMaximum, discovered, work, jobAt, handed, outcomes, resultLog, upc>>
dispatchVars == <<lastUrl, lastVariant, classified, classifyCalls>>
decisionVars == <<signals, raisedScore, verdictBefore, verdictAfter>>
tallyVars   == <<tallyDriver, toProcess, processed, successful, failed, records, lastPass>>
errorsVars  == <<errorCounts, retriesAdvised, lastAdvice, handleCalls>>
vars        == <<verifyVars, handlerVars, tabVars, batchVars, fillVars, captchaVars, modalVars, scanVars, countVars, credsVars, sinksVars, runVars, dispatchVars, decisionVars, tallyVars, errorsVars>>

\* What the actions of one specification leave alone.
outsideVerify  == <<handlerVars, tabVars, batchVars, fillVars, captchaVars, modalVars, scanVars, countVars, credsVars, sinksVars, runVars, dispatchVars, decisionVars, tallyVars, errorsVars>>
outsideHandler == <<verifyVars, tabVars, batchVars, fillVars, captchaVars, modalVars, scanVars, countVars, credsVars, sinksVars, runVars, dispatchVars, decisionVars, tallyVars, errorsVars>>
outsideSession == <<verifyVars, handlerVars, batchVars, fillVars, captchaVars, modalVars, scanVars, countVars, credsVars, sinksVars, runVars, dispatchVars, decisionVars, tallyVars, errorsVars>>
outsideBatch   == <<verifyVars, handlerVars, tabVars, fillVars, captchaVars, modalVars, scanVars, countVars, credsVars, sinksVars, runVars, dispatchVars, decisionVars, tallyVars, errorsVars>>
outsideFill    == <<verifyVars, handlerVars, tabVars, batchVars, captchaVars, modalVars, scanVars, countVars, credsVars, sinksVars, runVars, dispatchVars, decisionVars, tallyVars, errorsVars>>
outsideCaptcha == <<verifyVars, handlerVars, tabVars, batchVars, fillVars, modalVars, scanVars, countVars, credsVars, sinksVars, runVars, dispatchVars, decisionVars, tallyVars, errorsVars>>
outsideModal   == <<verifyVars, handlerVars, tabVars, batchVars, fillVars, captchaVars, scanVars, countVars, credsVars, sinksVars, runVars, dispatchVars, decisionVars, tallyVars, errorsVars>>
outsideScan    == <<verifyVars, handlerVars, tabVars, batchVars, fillVars, captchaVars, modalVars, countVars, credsVars, sinksVars, runVars, dispatchVars, decisionVars, tallyVars, errorsVars>>
outsideCount   == <<verifyVars, handlerVars, tabVars, batchVars, fillVars, captchaVars, modalVars, scanVars, credsVars, sinksVars, runVars, dispatchVars, decisionVars, tallyVars, errorsVars>>
outsideCreds   == <<verifyVars, handlerVars, tabVars, batchVars, fillVars, captchaVars, modalVars, scanVars, countVars, sinksVars, runVars, dispatchVars, decisionVars, tallyVars, errorsVars>>
outsideSinks   == <<verifyVars, handlerVars, tabVars, batchVars, fillVars, captchaVars, modalVars, scanVars, countVars, credsVars, runVars, dispatchVars, decisionVars, tallyVars, errorsVars>>
outsideRun     == <<verifyVars, handlerVars, tabVars, batchVars, fillVars, captchaVars, modalVars, scanVars, countVars, credsVars, sinksVars, dispatchVars, decisionVars, tallyVars, errorsVars>>
outsideDispatch == <<verifyVars, handlerVars, tabVars, batchVars, fillVars, captchaVars, modalVars, scanVars, countVars, credsVars, sinksVars, runVars, decisionVars, tallyVars, errorsVars>>
outsideDecision == <<verifyVars, handlerVars, tabVars, batchVars, fillVars, captchaVars, modalVars, scanVars, countVars, credsVars, sinksVars, runVars, dispatchVars, tallyVars, errorsVars>>
outsideTally   == <<verifyVars, handlerVars, tabVars, batchVars, fillVars, captchaVars, modalVars, scanVars, countVars, credsVars, sinksVars, runVars, dispatchVars, decisionVars, errorsVars>>
outsideErrors  == <<verifyVars, handlerVars, tabVars, batchVars, fillVars, captchaVars, modalVars, scanVars, countVars, credsVars, sinksVars, runVars, dispatchVars, decisionVars, tallyVars>>

(***************************************************************************)
(* Bounds of the model.                                                    *)
(***************************************************************************)
MaxSentences == 2      \* sentences of visible text on the post-submit page
MaxTabIds    == 6      \* tabs ever opened in one session (original included)
MaxFillCalls == 3      \* invocations of fillBasicInformation in one fill operation
MaxJobs      == 3      \* jobs one discovery returns
MaxMaximum   == 2      \* largest explicit maximum a batch is started with
MaxNewTabs   == 1      \* tabs one apply click may open
MaxButtons   == 3      \* controls inside one application modal
MaxControls  == 2      \* clickable controls on a scanned page
MaxFields    == 3      \* fields one fill pass iterates
MaxLogins    == 3      \* Workday login attempts in one run
MaxSinkWrites == 3     \* operations on the result sinks in one run
MaxDiscovered == 3     \* job cards one discovery returns to a batch driver
MaxDispatches == 2     \* destination URLs one dispatcher classifies
MaxScore     == 3      \* largest keyword score of a verified page
MaxHandleCalls == 5    \* errors one ErrorHandler is handed in its lifetime

Range(s) == {s[i] : i \in 1..Len(s)}

(***************************************************************************)
(* Submission Verifier                                                     *)
(***************************************************************************)
\* Visible text is a sequence of sentences (the pieces bodyText.split(/[.!?]+/)
\* yields); a sentence is a sequence of words.
Sentences ==
    { <<"Thank", "you", "for", "applying">>,
      <<"Thank", "you">>,
      <<"Successfully", "submitted">>,
      <<"An", "error", "occurred">>,
      <<"Invalid", "required", "field">> }

\* String.prototype.toLowerCase on the words of the vocabulary.
toLowerCase(w) ==
    CASE w = "Thank"        -> "thank"
      [] w = "Successfully" -> "successfully"
      [] w = "An"           -> "an"
      [] w = "Invalid"      -> "invalid"
      [] OTHER              -> w

\* A one-word needle is found inside a longer word ("success" in "successfully").
wordIncludes(w, k) ==
    \/ toLowerCase(w) = k
    \/ toLowerCase(w) = "successfully" /\ k = "success"

\* String.prototype.includes of a keyword (a word sequence) in one sentence,
\* after lower-casing the sentence.
includes(sentence, kw) ==
    \E off \in 0..(Len(sentence) - Len(kw)) :
        \A j \in 1..Len(kw) :
            IF Len(kw) = 1 THEN wordIncludes(sentence[off + j], kw[j])
                           ELSE toLowerCase(sentence[off + j]) = kw[j]

bodyIncludes(text, kw) == \E i \in 1..Len(text) : includes(text[i], kw)

successKeywords ==
    << <<"thank", "you">>, <<"thanks">>, <<"submitted">>, <<"received">>,
       <<"complete">>, <<"success">>, <<"confirmation">>,
       <<"application", "received">>, <<"we'll", "be", "in", "touch">>,
       <<"next", "steps">>, <<"under", "review">>, <<"successfully">>,
       <<"confirmed">>, <<"we", "have", "received">>,
       <<"submission", "successful">>, <<"application", "complete">> >>

failureKeywords ==
    << <<"error">>, <<"failed">>, <<"please", "try", "again">>,
       <<"required", "field">>, <<"missing", "information">>,
       <<"invalid">>, <<"could", "not", "process">> >>

keywordHits(text, kws) == Cardinality({k \in 1..Len(kws) : bodyIncludes(text, kws[k])})

\* Variant that keeps the last matching sentence instead of the first.
lastSentenceWith(text, kw) ==
    IF bodyIncludes(text, kw)
    THEN text[CHOOSE i \in 1..Len(text) :
                 /\ includes(text[i], kw)
                 /\ \A j \in (i + 1)..Len(text) : ~includes(text[j], kw)]
    ELSE <<>>

\* sentences.find(s => s.toLowerCase().includes(keyword)), "" when none
firstSentenceWith(text, kw) ==
    IF bodyIncludes(text, kw)
    THEN text[CHOOSE i \in 1..Len(text) :
                 /\ includes(text[i], kw)
                 /\ \A j \in 1..(i - 1) : ~includes(text[j], kw)]
    ELSE <<>>

\* The forEach over successKeywords keeps the sentence of the first keyword
\* (in list order) that hits; <<>> stands for the empty string.
confirmationTextOf(text) ==
    LET hit == {k \in 1..Len(successKeywords) : bodyIncludes(text, successKeywords[k])}
    IN  IF hit = {} THEN <<>>
        ELSE firstSentenceWith(text, successKeywords[CHOOSE k \in hit : \A m \in hit : k <= m])

\* Address of the page, as the set of path segments it carries.
UrlSegments == {"thank-you", "confirmation", "error-page"}
segIncludes(seg, needle) ==
    \/ seg = "thank-you"    /\ needle = "thank"
    \/ seg = "confirmation" /\ needle = "confirm"
    \/ seg = "error-page"   /\ needle = "error"
urlIncludes(u, needle) == \E seg \in u : segIncludes(seg, needle)

urlIndicators(u) ==
    [ hasThankYou     |-> urlIncludes(u, "thank") \/ urlIncludes(u, "success"),
      hasConfirmation |-> urlIncludes(u, "confirm") \/ urlIncludes(u, "complete"),
      hasError        |-> urlIncludes(u, "error") \/ urlIncludes(u, "fail") ]

\* Fields of the page carrying the `required` attribute, by state.
RequiredFieldStates == {"empty", "filled", "disabled"}

Texts == UNION { [1..n -> Sentences] : n \in 0..MaxSentences }

\* Pages on which the in-page probe runs to completion.
CompletingPages ==
    [ text           : Texts,
      url            : SUBSET UrlSegments,
      successElement : BOOLEAN,
      errorElement   : BOOLEAN,
      hasForm        : BOOLEAN,
      required       : SUBSET RequiredFieldStates,
      evaluateThrows : {FALSE} ]

\* Pages on which page.evaluate rejects (navigated away, context destroyed);
\* what they show is then never read.
ThrowingPages ==
    [ text           : Texts,
      url            : {{}, {"thank-you"}},
      successElement : {TRUE},
      errorElement   : {FALSE},
      hasForm        : {FALSE},
      required       : {{}},
      evaluateThrows : {TRUE} ]

Pages == CompletingPages \cup ThrowingPages

\* `successScore >= 2` of the decision
MinSuccessScore == 2

\* The in-page probe of verifySubmission (the evaluate callback).
verificationData(p) ==
    [ successScore      |-> keywordHits(p.text, successKeywords),
      failureScore      |-> keywordHits(p.text, failureKeywords),
      confirmationText  |-> confirmationTextOf(p.text),
      urlIndicators     |-> urlIndicators(p.url),
      hasSuccessElement |-> p.successElement,
      hasErrorElement   |-> p.errorElement,
      hasForm           |-> p.hasForm,
      \* querySelectorAll('[required]:not([disabled])').length > 0
      hasRequiredFields |-> (p.required \ {"disabled"}) # {} ]

\* Variant of the decision that ignores an error signal in the address.
submittedDecisionIgnoringUrlError(d) ==
    /\ d.successScore > d.failureScore
    /\ \/ d.successScore >= MinSuccessScore
       \/ d.hasSuccessElement
       \/ d.urlIndicators.hasThankYou
       \/ d.urlIndicators.hasConfirmation
    /\ ~d.hasErrorElement
    /\ (~d.hasForm \/ ~d.hasRequiredFields)

\* Variant of the decision that wants the success score just above the
\* failure score.
submittedDecisionNarrowMargin(d) ==
    /\ d.successScore = d.failureScore + 1
    /\ \/ d.successScore >= MinSuccessScore
       \/ d.hasSuccessElement
       \/ d.urlIndicators.hasThankYou
       \/ d.urlIndicators.hasConfirmation
    /\ ~d.hasErrorElement
    /\ ~d.urlIndicators.hasError
    /\ (~d.hasForm \/ ~d.hasRequiredFields)

\* const submitted = ... (the decision of verifySubmission)
submittedDecision(d) ==
    /\ d.successScore > d.failureScore
    /\ \/ d.successScore >= MinSuccessScore
       \/ d.hasSuccessElement
       \/ d.urlIndicators.hasThankYou
       \/ d.urlIndicators.hasConfirmation
    /\ ~d.hasErrorElement
    /\ ~d.urlIndicators.hasError
    /\ (~d.hasForm \/ ~d.hasRequiredFields)

NoVerification ==
    [ submitted |-> FALSE, threw |-> FALSE, successScore |-> 0, failureScore |-> 0,
      confirmationText |-> <<>> ]

verifySubmission(p) ==
    IF p.evaluateThrows
    THEN [ NoVerification EXCEPT !.threw = TRUE ]
    ELSE LET d == verificationData(p)
         IN  [ submitted        |-> submittedDecision(d),
               threw            |-> FALSE,
               successScore     |-> d.successScore,
               failureScore     |-> d.failureScore,
               confirmationText |-> d.confirmationText ]

NoSubmitResult == [ success |-> FALSE, error |-> "none", confirmationText |-> <<>> ]

\* Tail of submitApplicationForm: the verifier's verdict becomes the result.
submitOutcome(v) ==
    IF v.submitted
    THEN [ success |-> TRUE, error |-> "none", confirmationText |-> v.confirmationText ]
    ELSE [ success |-> FALSE, error |-> "Could not verify submission",
           confirmationText |-> <<>> ]

(***************************************************************************)
(* Values the variables of the other specifications rest at.               *)
(***************************************************************************)
NoPage == 0
NoResult == [ kind |-> "none", success |-> FALSE, error |-> "none", step |-> 0 ]

VerifyIdle ==
    /\ page = [ text |-> <<>>, url |-> {}, successElement |-> FALSE,
                errorElement |-> FALSE, hasForm |-> FALSE, required |-> {},
                evaluateThrows |-> FALSE ]
    /\ vpc = "idle"
    /\ verification = NoVerification
    /\ submitResult = NoSubmitResult

NoLoginAttempt == [ reason |-> "none", flow |-> "none" ]

HandlerIdle ==
    /\ extUrl = "none"
    /\ platform = "none"
    /\ hpc = "idle"
    /\ trace = <<>>
    /\ failedAt = "none"
    /\ loginVia = "none"
    /\ result = NoResult
    /\ submitClicked = FALSE
    /\ verifierOk = FALSE
    /\ loginAttempt = NoLoginAttempt
    /\ formFilled = FALSE
    /\ challengeCalls = {}
    /\ formSeen = "unknown"

TabsIdle ==
    /\ tabs = <<>>
    /\ url = <<>>
    /\ nextId = 1
    /\ mainPage = NoPage
    /\ handlerPage = NoPage
    /\ opc = "off"
    /\ lastOp = "none"
    /\ snapshot = <<>>
    /\ before = [ open |-> {}, main |-> NoPage ]

BatchIdle ==
    /\ driver = "none"
    /\ maxApplications = 0
    /\ jobs = <<>>
    /\ jobIdx = 0
    /\ applicationsCompleted = 0
    /\ attemptsStarted = 0
    /\ caught = 0
    /\ bpc = "idle"

NoStep == [ step |-> "none", at |-> "none", outcome |-> "none" ]

FillIdle ==
    /\ fpc = "idle"
    /\ fillCalls = 0
    /\ reprobes = 0
    /\ navRetries = 0
    /\ inTrySite = FALSE
    /\ prev = NoStep
    /\ fillOutcome = "none"

NoAfter == [ gone |-> FALSE, token |-> FALSE, accessible |-> FALSE, probe |-> "none" ]
NoCaptchaResult == [ success |-> FALSE, captchaType |-> "unset", error |-> "unset" ]

CaptchaIdle ==
    /\ markers = {}
    /\ cpc = "idle"
    /\ handledAs = "none"
    /\ clicked = FALSE
    /\ after = NoAfter
    /\ captchaResult = NoCaptchaResult

ModalIdle ==
    /\ modalPlatform = "none"
    /\ modalButtons = <<>>
    /\ selectedButton = 0
    /\ mpc = "idle"

NoScanResult == [ success |-> FALSE, formPage |-> FALSE, selector |-> "none", error |-> "unset" ]

ScanIdle ==
    /\ scanMode = "none"
    /\ controls = <<>>
    /\ hasFormFields = FALSE
    /\ clickedControl = 0
    /\ scanResult = NoScanResult
    /\ spc = "idle"

NoCount == [ has |-> FALSE, filledCount |-> 0 ]

CountIdle ==
    /\ routine = "none"
    /\ fields = <<>>
    /\ cursor = 0
    /\ touched = <<>>
    /\ filledCount = 0
    /\ reported = NoCount
    /\ qpc = "idle"

NoLogin == [ company |-> "none", outcome |-> "none", io |-> "none" ]

CredsIdle ==
    /\ credStore = {}
    /\ verifiedLogins = {}
    /\ savedFor = {}
    /\ unverifiedWrites = {}
    /\ logins = 0
    /\ lastLogin = NoLogin
    /\ rpc = "off"

NoSinkOp == [ op |-> "none", read |-> "none", write |-> "none" ]

SinksIdle ==
    /\ submissions = <<>>
    /\ qaPairs = <<>>
    /\ submissionsBefore = <<>>
    /\ qaPairsBefore = <<>>
    /\ sinkOp = NoSinkOp
    /\ sinkWrites = 0

RunIdle ==
    /\ runDriver = "none"
    /\ runMaximum = 0
    /\ discovered = <<>>
    /\ work = <<>>
    /\ jobAt = 0
    /\ handed = <<>>
    /\ outcomes = <<>>
    /\ resultLog = <<>>
    /\ upc = "off"

NoUrl == [ host |-> <<>>, tail |-> <<>> ]

DispatchIdle ==
    /\ lastUrl = NoUrl
    /\ lastVariant = "none"
    /\ classified = {}
    /\ classifyCalls = 0

NoSignals ==
    [ successScore |-> 0, failureScore |-> 0, hasSuccessElement |-> FALSE,
      hasErrorElement |-> FALSE, hasForm |-> FALSE, hasRequiredFields |-> FALSE,
      urlIndicators |-> [ hasThankYou |-> FALSE, hasConfirmation |-> FALSE,
                          hasError |-> FALSE ] ]

DecisionIdle ==
    /\ signals = NoSignals
    /\ raisedScore = "off"
    /\ verdictBefore = FALSE
    /\ verdictAfter = FALSE

NoPass == [ path |-> "none", afterThrows |-> FALSE ]

TallyIdle ==
    /\ tallyDriver = "none"
    /\ toProcess = 0
    /\ processed = 0
    /\ successful = 0
    /\ failed = 0
    /\ records = 0
    /\ lastPass = NoPass

NoAdvice == [ key |-> <<>>, occurrence |-> 0, shouldRetry |-> FALSE ]

ErrorsIdle ==
    /\ errorCounts = <<>>
    /\ retriesAdvised = <<>>
    /\ lastAdvice = NoAdvice
    /\ handleCalls = 0

OutsideVerifyIdle  == HandlerIdle /\ TabsIdle /\ BatchIdle /\ FillIdle /\ CaptchaIdle /\ ModalIdle /\ ScanIdle /\ CountIdle /\ CredsIdle /\ SinksIdle /\ RunIdle /\ DispatchIdle /\ DecisionIdle /\ TallyIdle /\ ErrorsIdle
OutsideHandlerIdle == VerifyIdle /\ TabsIdle /\ BatchIdle /\ FillIdle /\ CaptchaIdle /\ ModalIdle /\ ScanIdle /\ CountIdle /\ CredsIdle /\ SinksIdle /\ RunIdle /\ DispatchIdle /\ DecisionIdle /\ TallyIdle /\ ErrorsIdle
OutsideSessionIdle == VerifyIdle /\ HandlerIdle /\ BatchIdle /\ FillIdle /\ CaptchaIdle /\ ModalIdle /\ ScanIdle /\ CountIdle /\ CredsIdle /\ SinksIdle /\ RunIdle /\ DispatchIdle /\ DecisionIdle /\ TallyIdle /\ ErrorsIdle
OutsideBatchIdle   == VerifyIdle /\ HandlerIdle /\ TabsIdle /\ FillIdle /\ CaptchaIdle /\ ModalIdle /\ ScanIdle /\ CountIdle /\ CredsIdle /\ SinksIdle /\ RunIdle /\ DispatchIdle /\ DecisionIdle /\ TallyIdle /\ ErrorsIdle
OutsideFillIdle    == VerifyIdle /\ HandlerIdle /\ TabsIdle /\ BatchIdle /\ CaptchaIdle /\ ModalIdle /\ ScanIdle /\ CountIdle /\ CredsIdle /\ SinksIdle /\ RunIdle /\ DispatchIdle /\ DecisionIdle /\ TallyIdle /\ ErrorsIdle
OutsideCaptchaIdle == VerifyIdle /\ HandlerIdle /\ TabsIdle /\ BatchIdle /\ FillIdle /\ ModalIdle /\ ScanIdle /\ CountIdle /\ CredsIdle /\ SinksIdle /\ RunIdle /\ DispatchIdle /\ DecisionIdle /\ TallyIdle /\ ErrorsIdle
OutsideModalIdle   == VerifyIdle /\ HandlerIdle /\ TabsIdle /\ BatchIdle /\ FillIdle /\ CaptchaIdle /\ ScanIdle /\ CountIdle /\ CredsIdle /\ SinksIdle /\ RunIdle /\ DispatchIdle /\ DecisionIdle /\ TallyIdle /\ ErrorsIdle
OutsideScanIdle    == VerifyIdle /\ HandlerIdle /\ TabsIdle /\ BatchIdle /\ FillIdle /\ CaptchaIdle /\ ModalIdle /\ CountIdle /\ CredsIdle /\ SinksIdle /\ RunIdle /\ DispatchIdle /\ DecisionIdle /\ TallyIdle /\ ErrorsIdle
OutsideCountIdle   == VerifyIdle /\ HandlerIdle /\ TabsIdle /\ BatchIdle /\ FillIdle /\ CaptchaIdle /\ ModalIdle /\ ScanIdle /\ CredsIdle /\ SinksIdle /\ RunIdle /\ DispatchIdle /\ DecisionIdle /\ TallyIdle /\ ErrorsIdle
OutsideCredsIdle   == VerifyIdle /\ HandlerIdle /\ TabsIdle /\ BatchIdle /\ FillIdle /\ CaptchaIdle /\ ModalIdle /\ ScanIdle /\ CountIdle /\ SinksIdle /\ RunIdle /\ DispatchIdle /\ DecisionIdle /\ TallyIdle /\ ErrorsIdle
OutsideSinksIdle   == VerifyIdle /\ HandlerIdle /\ TabsIdle /\ BatchIdle /\ FillIdle /\ CaptchaIdle /\ ModalIdle /\ ScanIdle /\ CountIdle /\ CredsIdle /\ RunIdle /\ DispatchIdle /\ DecisionIdle /\ TallyIdle /\ ErrorsIdle
OutsideRunIdle     == VerifyIdle /\ HandlerIdle /\ TabsIdle /\ BatchIdle /\ FillIdle /\ CaptchaIdle /\ ModalIdle /\ ScanIdle /\ CountIdle /\ CredsIdle /\ SinksIdle /\ DispatchIdle /\ DecisionIdle /\ TallyIdle /\ ErrorsIdle
OutsideDispatchIdle == VerifyIdle /\ HandlerIdle /\ TabsIdle /\ BatchIdle /\ FillIdle /\ CaptchaIdle /\ ModalIdle /\ ScanIdle /\ CountIdle /\ CredsIdle /\ SinksIdle /\ RunIdle /\ DecisionIdle /\ TallyIdle /\ ErrorsIdle
OutsideDecisionIdle == VerifyIdle /\ HandlerIdle /\ TabsIdle /\ BatchIdle /\ FillIdle /\ CaptchaIdle /\ ModalIdle /\ ScanIdle /\ CountIdle /\ CredsIdle /\ SinksIdle /\ RunIdle /\ DispatchIdle /\ TallyIdle /\ ErrorsIdle
OutsideTallyIdle   == VerifyIdle /\ HandlerIdle /\ TabsIdle /\ BatchIdle /\ FillIdle /\ CaptchaIdle /\ ModalIdle /\ ScanIdle /\ CountIdle /\ CredsIdle /\ SinksIdle /\ RunIdle /\ DispatchIdle /\ DecisionIdle /\ ErrorsIdle
OutsideErrorsIdle  == VerifyIdle /\ HandlerIdle /\ TabsIdle /\ BatchIdle /\ FillIdle /\ CaptchaIdle /\ ModalIdle /\ ScanIdle /\ CountIdle /\ CredsIdle /\ SinksIdle /\ RunIdle /\ DispatchIdle /\ DecisionIdle /\ TallyIdle

(***************************************************************************)
(* SpecVerify: the verifier applied to every page of the bounded set.      *)
(***************************************************************************)
InitVerify ==
    /\ page \in Pages
    /\ vpc = "loaded"
    /\ verification = NoVerification
    /\ submitResult = NoSubmitResult
    /\ OutsideVerifyIdle

\* submitApplicationForm line 2602: const verificationResult = await this.verifySubmission()
VerifySubmission ==
    /\ vpc = "loaded"
    /\ verification' = verifySubmission(page)
    /\ vpc' = "verified"
    /\ UNCHANGED <<page, submitResult, outsideVerify>>

\* submitApplicationForm lines 2604-2630
SubmitReturn ==
    /\ vpc = "verified"
    /\ submitResult' = submitOutcome(verification)
    /\ vpc' = "returned"
    /\ UNCHANGED <<page, verification, outsideVerify>>

NextVerify == VerifySubmission \/ SubmitReturn

SpecVerify == InitVerify /\ [][NextVerify]_vars

(***************************************************************************)
(* Platform Dispatcher and Platform Handler pipeline                       *)
(***************************************************************************)
\* Destination URLs the dispatcher is driven with.
DispatchUrls ==
    { "https://acme.wd1.myworkdayjobs.com/careers/job/1",
      "https://www.workday.com/acme/job/1",
      "https://www.linkedin.com/jobs/view/1",
      "https://jobs.lever.co/acme/1",
      "https://careers.acme.com/jobs/1",
      "https://careers.initech.com/apply/7" }

\* A URL is its host and what follows the host; its text is a sequence of
\* pieces (labels, separators, parts of labels), so that includes() is a
\* search for a contiguous run of pieces.
urlText(u) == <<"https", "://">> \o u.host \o u.tail

\* text.includes(pattern)
containsPieces(text, pattern) ==
    \E i \in 1..(Len(text) - Len(pattern) + 1) :
        SubSeq(text, i, i + Len(pattern) - 1) = pattern

\* The two patterns of every branch of the if-chain, in the order of the chain
WorkdayPatternsFirstOnly ==
    { <<"workday", ".", "com">> }
WorkdayPatterns ==
    { <<"workday", ".", "com">>, <<"wd1", ".", "myworkdayjobs", ".", "com">> }
LinkedInPatterns ==
    { <<"linkedin", ".", "com">>, <<"linkedinjobs", ".", "com">> }
GreenhousePatterns ==
    { <<"greenhouse", ".", "io">>, <<"boards", ".", "greenhouse", ".", "io">> }
LeverPatterns ==
    { <<"lever", ".", "co">>, <<"jobs", ".", "lever", ".", "co">> }
BambooHRPatterns ==
    { <<"bamboohr", ".", "com">>, <<"jobs", ".", "bamboohr", ".", "com">> }
ApplePatterns ==
    { <<"jobs", ".", "apple", ".", "com">>, <<"apple", ".", "com", "/", "jobs">> }

includesOneOf(text, patterns) == \E p \in patterns : containsPieces(text, p)

\* What the chain falls through to when no branch matches
unmatchedVariantNone == "none"
unmatchedVariant == "generic"

\* The if-chain of handleExternalCareerSite on the text of the URL
classify(text) ==
    IF includesOneOf(text, WorkdayPatterns) THEN "workday"
    ELSE IF includesOneOf(text, LinkedInPatterns) THEN "linkedin"
    ELSE IF includesOneOf(text, GreenhousePatterns) THEN "greenhouse"
    ELSE IF includesOneOf(text, LeverPatterns) THEN "lever"
    ELSE IF includesOneOf(text, BambooHRPatterns) THEN "bamboohr"
    ELSE IF includesOneOf(text, ApplePatterns) THEN "apple"
    ELSE unmatchedVariant

\* The destination URLs above, as host and tail
destinationOf(u) ==
    CASE u = "https://acme.wd1.myworkdayjobs.com/careers/job/1" ->
           [ host |-> <<"acme", ".", "wd1", ".", "myworkdayjobs", ".", "com">>,
             tail |-> <<"/", "careers", "/", "job", "/", "1">> ]
      [] u = "https://www.workday.com/acme/job/1" ->
           [ host |-> <<"www", ".", "workday", ".", "com">>,
             tail |-> <<"/", "acme", "/", "job", "/", "1">> ]
      [] u = "https://www.linkedin.com/jobs/view/1" ->
           [ host |-> <<"www", ".", "linkedin", ".", "com">>,
             tail |-> <<"/", "jobs", "/", "view", "/", "1">> ]
      [] u = "https://jobs.lever.co/acme/1" ->
           [ host |-> <<"jobs", ".", "lever", ".", "co">>,
             tail |-> <<"/", "acme", "/", "1">> ]
      [] u = "https://careers.acme.com/jobs/1" ->
           [ host |-> <<"careers", ".", "acme", ".", "com">>,
             tail |-> <<"/", "jobs", "/", "1">> ]
      [] OTHER ->
           [ host |-> <<"careers", ".", "initech", ".", "com">>,
             tail |-> <<"/", "apply", "/", "7">> ]

\* handleExternalCareerSite's choice for a destination URL
dispatch(u) == classify(urlText(destinationOf(u)))

ClassHandlers == {"workday", "lever", "linkedin"}

\* The states one handle<Platform>Application call goes through, in order
\* (Step 1 .. Step 5 and the post-submission call; Step 1 resolves the modal).
Pipeline ==
    << "ApplyButtonDetection", "ApplicationModalResolution", "LoginOrAccountResolution",
       "FormDetection", "FormFill", "ReviewAndSubmit", "PostSubmissionHandling" >>

Returned(success, error, step) ==
    [ kind |-> "returned", success |-> success, error |-> error, step |-> step ]

\* A catch block that rethrows (as PlatformBase.initialize does): the error
\* leaves the async function as a rejection instead of a return value.
externalSiteRethrow(error) ==
    [ kind |-> "thrown", success |-> FALSE, error |-> error, step |-> 0 ]

\* catch block of handleExternalCareerSite (lines 584-587): no step field
externalSiteCatch(error) == Returned(FALSE, error, 0)

\* catch block of handleGenericExternalSite (lines 1091-1093): no step field
genericCatch(error) == Returned(FALSE, error, 0)

\* `return { success: false, error: ..., step: n }` of the class handlers
stepFailure(error, step) == Returned(FALSE, error, step)

\* `return { success: true, platform, submitted: true, details }`
handlerSuccess == Returned(TRUE, "none", 0)

\* ---- Step 1: detectAndClickApplyButton, with the modal it resolves ----
ApplyProbes  == {"found", "notFound", "throw"}
ClickResults == {"ok", "throw"}
ModalResults == {"clicked", "noModal", "noButton", "throw"}

\* handle<Platform>ApplicationModal: its return value
modalResult(modal) ==
    CASE modal = "clicked"  -> [ success |-> TRUE,  error |-> "none" ]
      [] modal = "noModal"  -> [ success |-> TRUE,  error |-> "none" ]
      [] modal = "noButton" -> [ success |-> FALSE, error |-> "No suitable button in modal" ]
      [] OTHER              -> [ success |-> FALSE, error |-> "exception" ]

detectAndClickApplyButton(probe, click, modal) ==
    CASE probe = "throw"    -> [ success |-> FALSE, error |-> "exception" ]
      [] probe = "notFound" -> [ success |-> FALSE, error |-> "No apply button found" ]
      [] click = "throw"    -> [ success |-> FALSE, error |-> "exception" ]
      [] OTHER              -> modalResult(modal)

\* ---- Step 2: login / account resolution ----
LoginChecks   == {"loggedIn", "needsCreate", "needsLogin", "noLogin", "throw"}
LoginOutcomes == {"ok", "incorrect_password", "account_not_found", "login_failed",
                  "unknown_status", "Could not submit login form", "exception"}
CreateOutcomes == {"ok", "Could not create account", "exception"}
ResetOutcomes  == {"ok", "Could not reset password", "exception"}

\* error.includes(needle) on the error strings of loginToWorkday
errorIncludesSwapped(error, needle) ==
    \/ error = "account_not_found"  /\ needle = "password"
    \/ error = "incorrect_password" /\ needle = "account"
errorIncludes(error, needle) ==
    \/ error = "account_not_found"  /\ needle = "account"
    \/ error = "incorrect_password" /\ needle = "password"

\* `flow` names the flow the resolution ended in, on success and on failure.
subResult(outcome, via) ==
    IF outcome = "ok" THEN [ success |-> TRUE,  error |-> "none",  via |-> via, flow |-> via ]
                      ELSE [ success |-> FALSE, error |-> outcome, via |-> "none", flow |-> via ]

handleWorkdayLogin(check, login, create, reset) ==
    CASE check = "throw"    -> subResult("exception", "none")
      [] check = "loggedIn" -> subResult("ok", "already")
      [] login = "ok"       -> subResult("ok", "login")
      [] errorIncludes(login, "account")  -> subResult(create, "created")
      [] errorIncludes(login, "password") -> subResult(reset, "reset")
      [] OTHER              -> subResult("Could not login to Workday", "login")

handleLeverLogin(check, login, create) ==
    CASE check = "throw"       -> subResult("exception", "none")
      [] check = "loggedIn"    -> subResult("ok", "already")
      [] check = "needsCreate" -> subResult(create, "created")
      [] check = "needsLogin"  -> subResult(login, "login")
      [] OTHER                 -> subResult("ok", "notRequired")

handleLinkedInLogin(check, login) ==
    CASE check = "throw"      -> subResult("exception", "none")
      [] check = "loggedIn"   -> subResult("ok", "already")
      [] check = "needsLogin" -> subResult(login, "login")
      [] OTHER                -> subResult("ok", "notRequired")

\* loginToLever / loginToLinkedIn report success once the form is submitted
UnverifiedLoginOutcomes == {"ok", "Could not submit login form", "exception"}

handleLogin(p, check, login, create, reset) ==
    CASE p = "workday" -> handleWorkdayLogin(check, login, create, reset)
      [] p = "lever"   -> handleLeverLogin(check, login, create)
      [] OTHER         -> handleLinkedInLogin(check, login)

\* ---- Step 3: detectApplicationForm ----
FormChecks == {"form", "none", "throw"}
detectApplicationForm(check) ==
    CASE check = "form" -> [ success |-> TRUE,  error |-> "none" ]
      [] check = "none" -> [ success |-> FALSE, error |-> "No application form found" ]
      [] OTHER          -> [ success |-> FALSE, error |-> "exception" ]

\* What the detection saw: fields or a form container, neither, or nothing
\* because the probe rejected.
formSeenBy(check) ==
    CASE check = "form" -> "found"
      [] check = "none" -> "absent"
      [] OTHER          -> "unknown"

\* ---- Step 5: reviewAndSubmitApplication ----
SubmitProbes == {"clicked", "noButton", "throw"}
reviewAndSubmitApplication(probe) ==
    CASE probe = "clicked"  -> [ success |-> TRUE,  error |-> "none" ]
      [] probe = "noButton" -> [ success |-> FALSE, error |-> "Could not find submit button" ]
      [] OTHER              -> [ success |-> FALSE, error |-> "exception" ]

\* ---- submitApplicationForm of the orchestrator (used by the Generic variant) ----
VerifierVerdicts == { verifySubmission(p).submitted : p \in Pages }

submitApplicationForm(pre, button, already, click, verdict) ==
    CASE pre = "throw" ->
            [ success |-> FALSE, error |-> "exception", clicked |-> FALSE, verified |-> FALSE ]
      [] button = "none" /\ already ->
            [ success |-> TRUE, error |-> "none", clicked |-> FALSE, verified |-> FALSE ]
      [] button = "none" ->
            [ success |-> FALSE, error |-> "No submit button found", clicked |-> FALSE,
              verified |-> FALSE ]
      [] OTHER ->
            [ success  |-> verdict,
              error    |-> IF verdict THEN "none" ELSE "Could not verify submission",
              clicked  |-> click = "clicked",
              verified |-> verdict ]

\* ---- control flow of handle<Platform>Application ----
\* `if (!r.success) return {...}`: a failed state ends the invocation.
nextPcNoHalt(r, next) == next
nextPc(r, next) == IF r.success THEN next ELSE "done"

\* Common shape of one pipeline step of the class handlers.
PipelineStep(at, ran, r, error, step, next) ==
    /\ hpc = at
    /\ platform \in ClassHandlers
    /\ trace' = trace \o ran
    /\ hpc' = nextPc(r, next)
    /\ IF r.success
       THEN UNCHANGED <<result, failedAt>>
       ELSE /\ result' = stepFailure(error, step)
            /\ failedAt' = ran[Len(ran)]

\* handleExternalCareerSite: classify the URL, construct and initialize the handler
HandleExternalCareerSite ==
    /\ hpc = "dispatch"
    /\ \E u \in DispatchUrls, init \in {"ok", "throw"} :
        /\ extUrl' = u
        /\ platform' = dispatch(u)
        /\ IF dispatch(u) \in ClassHandlers /\ init = "throw"
           THEN /\ result' = externalSiteCatch("exception")
                /\ hpc' = "done"
           ELSE /\ hpc' = IF dispatch(u) \in ClassHandlers THEN "apply" ELSE "generic"
                /\ UNCHANGED result
    /\ UNCHANGED <<trace, failedAt, loginVia, submitClicked, verifierOk,
                   loginAttempt, formFilled, challengeCalls, formSeen,
                   outsideHandler>>

\* Step 1 (with the modal resolution it performs after the click)
DetectAndClickApplyButton ==
    /\ \E probe \in ApplyProbes, click \in ClickResults, modal \in ModalResults :
         PipelineStep("apply",
                      IF probe = "found" /\ click = "ok"
                      THEN <<"ApplyButtonDetection", "ApplicationModalResolution">>
                      ELSE <<"ApplyButtonDetection">>,
                      detectAndClickApplyButton(probe, click, modal),
                      "Could not find apply button", 1, "login")
    /\ UNCHANGED <<extUrl, platform, loginVia, submitClicked, verifierOk,
                   loginAttempt, formFilled, challengeCalls, formSeen,
                   outsideHandler>>

\* Step 2
HandleLogin ==
    /\ \E check \in LoginChecks, create \in CreateOutcomes, reset \in ResetOutcomes,
          login \in IF platform = "workday" THEN LoginOutcomes ELSE UnverifiedLoginOutcomes :
         LET r == handleLogin(platform, check, login, create, reset)
         IN  /\ PipelineStep("login", <<"LoginOrAccountResolution">>, r, r.error, 2, "detect")
             /\ loginVia' = r.via
             /\ loginAttempt' =
                    [ reason |-> IF platform = "workday" /\ check \notin {"throw", "loggedIn"}
                                 THEN login ELSE "none",
                      flow   |-> r.flow ]
    /\ UNCHANGED <<extUrl, platform, submitClicked, verifierOk, formFilled, challengeCalls,
                   formSeen, outsideHandler>>

\* Step 3
DetectApplicationForm ==
    /\ \E check \in FormChecks :
         /\ PipelineStep("detect", <<"FormDetection">>, detectApplicationForm(check),
                         "No application form found", 3, "fill")
         /\ formSeen' = formSeenBy(check)
    /\ UNCHANGED <<extUrl, platform, loginVia, submitClicked, verifierOk,
                   loginAttempt, formFilled, challengeCalls,
                   outsideHandler>>

\* Step 4: fill<Platform>ApplicationForm; every sub-fill catches its own errors,
\* so the step reports success whatever the page does.
FillApplicationForm ==
    /\ PipelineStep("fill", <<"FormFill">>, [ success |-> TRUE, error |-> "none" ],
                    "none", 4, "submit")
    /\ formFilled' = TRUE
    /\ UNCHANGED <<extUrl, platform, loginVia, submitClicked, verifierOk, loginAttempt,
                   challengeCalls, formSeen, outsideHandler>>

\* Step 5
ReviewAndSubmitApplication ==
    /\ \E probe \in SubmitProbes :
         LET r == reviewAndSubmitApplication(probe)
         IN  /\ PipelineStep("submit", <<"ReviewAndSubmit">>, r, r.error, 5, "post")
             /\ submitClicked' = (probe = "clicked")
    /\ UNCHANGED <<extUrl, platform, loginVia, verifierOk,
                   loginAttempt, formFilled, challengeCalls, formSeen,
                   outsideHandler>>

\* Step 6 and the final return: the outcome of post-submission handling is
\* recorded in details only.
HandlePostSubmission ==
    /\ hpc = "post"
    /\ platform \in ClassHandlers
    /\ \E post \in {"ok", "throw"} :
        /\ trace' = trace \o <<"PostSubmissionHandling">>
        /\ result' = handlerSuccess
        /\ hpc' = "done"
    /\ UNCHANGED <<extUrl, platform, failedAt, loginVia, submitClicked, verifierOk,
                   loginAttempt, formFilled, challengeCalls, formSeen,
                   outsideHandler>>

\* handleGenericExternalSite
GenericProbes == {"throw", "inputs", "iframes", "none"}

\* The field probe of handleGenericExternalSite and its re-check after a wait.
genericFormSeen(probe, recheck) ==
    CASE probe = "inputs" -> "found"
      [] probe = "none"   -> IF recheck THEN "found" ELSE "absent"
      [] OTHER            -> "unknown"

\* How fillBasicInformation ended: all passes done, the form handled inside an
\* iframe, or an exception that left its catch.
FillResults == {"ok", "iframe", "throw"}

\* The handleCaptcha calls of fillBasicInformation (before the fill; after it
\* unless the iframe branch returned first) and of submitApplicationForm
\* (between locating the submit control and the click).
fillChallengeCalls(fill) ==
    IF fill = "ok" THEN {"preFill", "postFill"} ELSE {"preFill"}
submitChallengeCalls(pre, button) ==
    IF pre = "ok" /\ button = "found" THEN {"preSubmit"} ELSE {}

HandleGenericExternalSite ==
    /\ hpc = "generic"
    /\ \E probe \in GenericProbes, recheck \in BOOLEAN, fill \in FillResults,
          pre \in {"ok", "throw"}, button \in {"found", "none"}, already \in BOOLEAN,
          click \in {"clicked", "notClicked"}, verdict \in VerifierVerdicts :
        LET fills   == probe = "inputs" \/ (probe = "none" /\ recheck)
            submits == probe \in {"inputs", "none"}
            sr      == submitApplicationForm(pre, button, already, click, verdict)
            thrown  == probe = "throw" \/ (fills /\ fill = "throw")
        IN  /\ IF thrown
               THEN /\ result' = genericCatch("exception")
                    /\ UNCHANGED <<submitClicked, verifierOk>>
               ELSE /\ result' = handlerSuccess
                    /\ submitClicked' = (submits /\ sr.clicked)
                    /\ verifierOk' = (submits /\ sr.verified)
            /\ formFilled' = fills
            /\ formSeen' = genericFormSeen(probe, recheck)
            /\ challengeCalls' =
                  (IF fills THEN fillChallengeCalls(fill) ELSE {})
                  \cup (IF ~thrown /\ submits THEN submitChallengeCalls(pre, button) ELSE {})
    /\ hpc' = "done"
    /\ UNCHANGED <<extUrl, platform, trace, failedAt, loginVia, loginAttempt, outsideHandler>>

InitHandler ==
    /\ extUrl = "none"
    /\ platform = "none"
    /\ hpc = "dispatch"
    /\ trace = <<>>
    /\ failedAt = "none"
    /\ loginVia = "none"
    /\ result = NoResult
    /\ submitClicked = FALSE
    /\ verifierOk = FALSE
    /\ loginAttempt = NoLoginAttempt
    /\ formFilled = FALSE
    /\ challengeCalls = {}
    /\ formSeen = "unknown"
    /\ OutsideHandlerIdle

NextHandler ==
    \/ HandleExternalCareerSite
    \/ DetectAndClickApplyButton
    \/ HandleLogin
    \/ DetectApplicationForm
    \/ FillApplicationForm
    \/ ReviewAndSubmitApplication
    \/ HandlePostSubmission
    \/ HandleGenericExternalSite

SpecHandler == InitHandler /\ [][NextHandler]_vars

(***************************************************************************)
(* Properties of the Platform Handler pipeline (SpecHandler)               *)
(***************************************************************************)
IsPrefix(s, t) == Len(s) <= Len(t) /\ \A i \in 1..Len(s) : s[i] = t[i]

\* C1: in a Workday, Lever or LinkedIn handler run the states execute in the
\* fixed pipeline order (the executed states are always an initial segment of
\* the pipeline), and once a state has reported failure the run is over: the
\* failing state is the last one executed, and a successful run has executed
\* all of them.
C1_PipelineOrderAndHalt ==
    platform \in ClassHandlers =>
        /\ IsPrefix(trace, Pipeline)
        /\ failedAt # "none" =>
              /\ hpc = "done"
              /\ trace # <<>> /\ trace[Len(trace)] = failedAt
              /\ ~result.success
        /\ result.success => trace = Pipeline /\ failedAt = "none"

C1_Witness ==
    /\ platform \in ClassHandlers
    /\ failedAt = "FormDetection"
    /\ trace = SubSeq(Pipeline, 1, 4)
    /\ hpc = "done"

HandlerRan == trace # <<>> \/ platform = "generic"

C3_FailedResultCarriesStep ==
    (hpc = "done" /\ HandlerRan /\ ~result.success) =>
        /\ result.step \in 1..Len(Pipeline)
        /\ result.error # "none"

\* C4: an attempt is reported with success=true only if a submit control was
\* clicked and the Submission Verifier judged the post-submit page submitted.
C4_SuccessIsVerified ==
    (hpc = "done" /\ result.success) => (submitClicked /\ verifierOk)

(***************************************************************************)
(* Properties of the Submission Verifier (SpecVerify)                      *)
(***************************************************************************)
\* The decision rule, evaluated on the page itself; blocking tells which
\* required fields count against a page that still shows a form.
DecisionRule(p, blocking) ==
    LET s == keywordHits(p.text, successKeywords)
        f == keywordHits(p.text, failureKeywords)
    IN  /\ s > f
        /\ \/ s >= 2
           \/ p.successElement
           \/ \E n \in {"thank", "success", "confirm", "complete"} : urlIncludes(p.url, n)
        /\ ~p.errorElement
        /\ ~\E n \in {"error", "fail"} : urlIncludes(p.url, n)
        /\ (~p.hasForm \/ (p.required \cap blocking) = {})

\* C5 as stated: submitted=true exactly when the four conditions hold, the
\* fourth being "no form is present or no required field remains unmet"
\* (an unmet required field is an enabled required field left empty).
C5_AsStated ==
    (vpc # "loaded" /\ ~page.evaluateThrows) =>
        (verification.submitted <=> DecisionRule(page, {"empty"}))

\* C5: the verifier reports submitted=true exactly when the in-page probe
\* completes and the four conditions hold, the fourth being "no form is
\* present or the page has no enabled required field, filled or not"; in
\* every other case it reports submitted=false.
C5_DecisionRule ==
    vpc # "loaded" =>
        (verification.submitted <=>
            (~page.evaluateThrows /\ DecisionRule(page, {"empty", "filled"})))

C5_Witness ==
    /\ vpc = "verified"
    /\ ~verification.submitted
    /\ ~page.evaluateThrows
    /\ page.hasForm
    /\ page.required = {"filled"}
    /\ DecisionRule(page, {"empty"})

\* Case-sensitive containment of the phrase "Thank you for applying".
Phrase == <<"Thank", "you", "for", "applying">>
containsPhrase(sentence) ==
    \E off \in 0..(Len(sentence) - Len(Phrase)) :
        \A j \in 1..Len(Phrase) : sentence[off + j] = Phrase[j]
textContainsPhrase(text) == \E i \in 1..Len(text) : containsPhrase(text[i])

NoErrorMarkers(p) ==
    /\ ~p.errorElement
    /\ ~\E n \in {"error", "fail"} : urlIncludes(p.url, n)
    /\ keywordHits(p.text, failureKeywords) = 0

\* C6 as stated: text containing "Thank you for applying", no error markers
\* and no unmet required field give success=true and a confirmationText
\* containing the phrase.
C6_AsStated ==
    (/\ vpc = "returned"
     /\ textContainsPhrase(page.text)
     /\ NoErrorMarkers(page)
     /\ "empty" \notin page.required) =>
        /\ submitResult.success
        /\ containsPhrase(submitResult.confirmationText)

\* Index of the first sentence that contains "thank you" in any letter case.
FirstThankYou(text) ==
    CHOOSE i \in 1..Len(text) :
        /\ includes(text[i], <<"thank", "you">>)
        /\ \A j \in 1..(i - 1) : ~includes(text[j], <<"thank", "you">>)

\* C6: text containing "Thank you for applying" with no error markers gives
\* success=true provided the probe completes, a second success signal is
\* present (another success keyword, a success element or a success URL
\* segment) and a page still showing a form has no enabled required field;
\* confirmationText is then the first sentence containing "thank you", which
\* contains the phrase when that sentence is the one carrying it.
C6_ThankYouForApplying ==
    (/\ vpc = "returned"
     /\ textContainsPhrase(page.text)
     /\ NoErrorMarkers(page)
     /\ ~page.evaluateThrows
     /\ \/ keywordHits(page.text, successKeywords) >= 2
        \/ page.successElement
        \/ \E n \in {"thank", "success", "confirm", "complete"} : urlIncludes(page.url, n)
     /\ (~page.hasForm \/ (page.required \ {"disabled"}) = {})) =>
        /\ submitResult.success
        /\ submitResult.confirmationText = page.text[FirstThankYou(page.text)]
        /\ containsPhrase(page.text[FirstThankYou(page.text)]) =>
              containsPhrase(submitResult.confirmationText)

C6_Witness ==
    /\ vpc = "returned"
    /\ page.text = << Phrase, <<"Thank", "you">> >>
    /\ ~page.hasForm
    /\ page.successElement
    /\ submitResult.success
    /\ submitResult.confirmationText = Phrase

(***************************************************************************)
(* Session / Tab manager                                                   *)
(***************************************************************************)
JobRightUrl == "https://jobright.ai/jobs/recommend"
BlankUrl    == "about:blank"
ExternalUrl == "https://careers.acme.com/jobs/1"
\* Addresses a tab opened by the apply click shows when the tabs are enumerated
\* (still blank, or already on the career site).
NewTabUrls  == {BlankUrl, ExternalUrl}

\* pageUrl.includes('jobright.ai')
includesJobRight(u) == u = JobRightUrl
\* !pageUrl.includes('jobright.ai') && pageUrl !== 'about:blank'
isExternalSite(u) == ~includesJobRight(u) /\ u # BlankUrl

Min(a, b) == IF a <= b THEN a ELSE b

\* context.pages(): the open tabs in creation order, each with its address
contextPages(ts, us) == [i \in 1..Len(ts) |-> [ id |-> ts[i], url |-> us[ts[i]] ]]

\* page.close() on every tab of a set
closeTabs(ts, closed) == SelectSeq(ts, LAMBDA t : t \notin closed)
urlsOf(us, ts) == [t \in Range(ts) |-> us[t]]

\* The for-loop of clickApplyButton stops at the first external page; 0 = none.
firstExternalIndex(pages) ==
    IF \E i \in 1..Len(pages) : isExternalSite(pages[i].url)
    THEN CHOOSE i \in 1..Len(pages) :
            /\ isExternalSite(pages[i].url)
            /\ \A j \in 1..(i - 1) : ~isExternalSite(pages[j].url)
    ELSE 0

\* `if (j !== 0 && j !== i) pages[j].close()` (array indices start at 0 there)
closedOnSuccessAll(pages, i) == {pages[j].id : j \in (1..Len(pages)) \ {i}}
closedOnSuccess(pages, i) == {pages[j].id : j \in (1..Len(pages)) \ {1, i}}

\* Loop of cleanupTabs: `for (let i = 1; i < pages.length; i++) pages[i].close()`
closedByCleanupButLast(pages) == {pages[i].id : i \in 2..(Len(pages) - 1)}
closedByCleanup(pages) == {pages[i].id : i \in 2..Len(pages)}

\* this.context.pages()[0] || await this.context.newPage()
firstPageOrNew(ts, fresh) == IF Len(ts) > 0 THEN ts[1] ELSE fresh

ExternalProbes == {"clicked", "form", "none", "throw"}

\* Tail of clickApplyButton, from the enumeration of the pages on: which tabs
\* it closes, which handle it leaves current, and where applyToJobWithAI goes.
clickScan(pages, cur, curUrl, probe) ==
    LET i == firstExternalIndex(pages)
    IN  IF i > 0
        THEN CASE probe = "clicked" ->
                    [ branch |-> "external", closed |-> closedOnSuccess(pages, i),
                      main |-> pages[i].id, next |-> "dispatch" ]
               [] probe = "form" ->
                    [ branch |-> "formPage", closed |-> {},
                      main |-> pages[i].id, next |-> "form" ]
               [] probe = "none" ->
                    [ branch |-> "probeFailed", closed |-> {pages[i].id},
                      main |-> pages[1].id, next |-> "idle" ]
               [] OTHER ->
                    [ branch |-> "probeThrew", closed |-> {},
                      main |-> pages[i].id, next |-> "idle" ]
        ELSE IF includesJobRight(curUrl)
        THEN [ branch |-> "noExternal", closed |-> {}, main |-> cur, next |-> "idle" ]
        ELSE [ branch |-> "noRedirect", closed |-> {}, main |-> cur, next |-> "form" ]

\* Session launched: one tab, the discovery surface, is open and current.
InitSession ==
    /\ tabs = <<1>>
    /\ url = [t \in {1} |-> JobRightUrl]
    /\ nextId = 2
    /\ mainPage = 1
    /\ handlerPage = NoPage
    /\ opc = "idle"
    /\ lastOp = "launch"
    /\ snapshot = <<>>
    /\ before = [ open |-> {}, main |-> NoPage ]
    /\ OutsideSessionIdle

\* clickApplyButton, and the branch applyToJobWithAI takes on its result.
\* The apply click may open new tabs and may navigate the current tab itself.
ClickApplyButton ==
    /\ opc = "idle"
    /\ before' = [ open |-> Range(tabs), main |-> mainPage ]
    /\ UNCHANGED <<handlerPage, outsideSession>>
    /\ \/ \* the current handle is a closed page: mainPage.evaluate rejects
          /\ mainPage \notin Range(tabs)
          /\ lastOp' = "threw"
          /\ snapshot' = <<>>
          /\ UNCHANGED <<tabs, url, nextId, mainPage, opc>>
       \/ \* no job card or no apply button on the page
          /\ mainPage \in Range(tabs)
          /\ lastOp' = "noButton"
          /\ snapshot' = <<>>
          /\ UNCHANGED <<tabs, url, nextId, mainPage, opc>>
       \/ /\ mainPage \in Range(tabs)
          /\ \E k \in 0..Min(MaxNewTabs, MaxTabIds + 1 - nextId) :
             \E newUrls \in [1..k -> NewTabUrls], nav \in {"stay", "external"},
                probe \in ExternalProbes :
             \E spawn \in (IF probe = "clicked" THEN BOOLEAN ELSE {FALSE}) :
                LET tabs1  == tabs \o [j \in 1..k |-> nextId + j - 1]
                    url1   == [t \in Range(tabs1) |->
                                 IF t >= nextId THEN newUrls[t - nextId + 1]
                                 ELSE IF t = mainPage /\ nav = "external" THEN ExternalUrl
                                 ELSE url[t]]
                    pages  == contextPages(tabs1, url1)
                    r      == clickScan(pages, mainPage, url1[mainPage], probe)
                    \* the external apply button may open the form in a new tab
                    spawns == r.branch = "external" /\ spawn /\ nextId + k <= MaxTabIds
                    kept   == closeTabs(tabs1, r.closed)
                    tabs2  == IF spawns THEN Append(kept, nextId + k) ELSE kept
                IN  /\ snapshot' = pages
                    /\ tabs' = tabs2
                    /\ url' = [t \in Range(tabs2) |->
                                 IF t = nextId + k THEN ExternalUrl ELSE url1[t]]
                    /\ nextId' = nextId + k + (IF spawns THEN 1 ELSE 0)
                    /\ mainPage' = r.main
                    /\ opc' = r.next
                    /\ lastOp' = r.branch

\* handleExternalCareerSite as seen by the session: a class handler is
\* constructed and initialize() binds its own page handle; the Generic
\* handler runs on the orchestrator's handle.
InitializeHandler ==
    /\ opc = "dispatch"
    /\ \E u \in DispatchUrls, init \in {"ok", "throw"} :
         IF dispatch(u) \in ClassHandlers
         THEN IF init = "ok"
              THEN /\ handlerPage' = firstPageOrNew(tabs, nextId)
                   /\ opc' = "handler"
              ELSE /\ handlerPage' = NoPage
                   /\ opc' = "cleanup"
         ELSE /\ handlerPage' = NoPage
              /\ opc' = "handler"
    /\ lastOp' = "initialize"
    /\ before' = [ open |-> Range(tabs), main |-> mainPage ]
    /\ snapshot' = <<>>
    /\ UNCHANGED <<tabs, url, nextId, mainPage, outsideSession>>

\* The handler returns to applyToJobWithAI and is dropped.
HandlerReturns ==
    /\ opc = "handler"
    /\ handlerPage' = NoPage
    /\ opc' = "cleanup"
    /\ lastOp' = "handled"
    /\ before' = [ open |-> Range(tabs), main |-> mainPage ]
    /\ snapshot' = <<>>
    /\ UNCHANGED <<tabs, url, nextId, mainPage, outsideSession>>

\* cleanupTabs: called by applyToJobWithAI after the external site was handled,
\* and by the drivers between jobs and at the end of a run.
CleanupTabs ==
    /\ opc \in {"cleanup", "idle"}
    /\ LET pages     == contextPages(tabs, url)
           remaining == closeTabs(tabs, closedByCleanup(pages))
       IN  /\ tabs' = remaining
           /\ url' = urlsOf(url, remaining)
           /\ mainPage' = IF Len(remaining) > 0 THEN remaining[1] ELSE mainPage
    /\ opc' = "idle"
    /\ lastOp' = "cleanup"
    /\ before' = [ open |-> Range(tabs), main |-> mainPage ]
    /\ snapshot' = <<>>
    /\ UNCHANGED <<nextId, handlerPage, outsideSession>>

\* No external site reached: handleResumeCustomizationModal and
\* handleApplicationFormWithAI run on the current handle; no tab is touched.
HandleApplicationFormWithAI ==
    /\ opc = "form"
    /\ opc' = "idle"
    /\ lastOp' = "form"
    /\ before' = [ open |-> Range(tabs), main |-> mainPage ]
    /\ snapshot' = <<>>
    /\ UNCHANGED <<tabs, url, nextId, mainPage, handlerPage, outsideSession>>

Next ==
    \/ ClickApplyButton
    \/ InitializeHandler
    \/ HandlerReturns
    \/ CleanupTabs
    \/ HandleApplicationFormWithAI

Spec == InitSession /\ [][Next]_vars

ExternalInSnapshot == {j \in 1..Len(snapshot) : isExternalSite(snapshot[j].url)}

C9_CurrentHandleIsOpen ==
    opc # "off" => mainPage \in Range(tabs)

\* C10: at any time at most one page handle is addressable for page
\* primitives across the orchestrator and the handler it dispatched to.
AddressableHandles == {mainPage} \cup ({handlerPage} \ {NoPage})

C10_SingleAddressableHandle ==
    opc # "off" => Cardinality(AddressableHandles) = 1

\* Branches of clickApplyButton, the first operation of every attempt.
ClickBranches ==
    {"threw", "noButton", "external", "formPage", "probeFailed", "probeThrew",
     "noExternal", "noRedirect"}

\* C11: a cleanup has run before every attempt, whatever the outcome of the
\* earlier one, so every attempt starts with only the original discovery tab
\* open and current.
C11_AttemptStartsClean ==
    lastOp \in ClickBranches => (before.open = {1} /\ before.main = 1)

\* C35: the platform handler the dispatcher selected drives the tab the
\* session made current after the apply click, the external destination tab,
\* and never the original discovery tab or another tab.
C35_HandlerDrivesCurrentTab ==
    (opc = "handler" /\ handlerPage # NoPage) => handlerPage = mainPage

(***************************************************************************)
(* Batch loops: discoverAndApplyToJobs and runBatchApplications            *)
(***************************************************************************)
MinScore == 60
JobScores == {50, 60, 90}

\* jobs.filter(job => job.score >= 60)
highScoring(js) == SelectSeq(js, LAMBDA sc : sc >= MinScore)
\* .slice(0, maxApplications)
slice(js, n) == SubSeq(js, 1, Min(n, Len(js)))

\* The candidates the loop of each driver iterates over.
candidatesOf(d, js, max) ==
    IF d = "runBatchApplications" THEN slice(highScoring(js), max) ELSE highScoring(js)

\* `if (applicationsCompleted >= maxApplications) break;`
reachedMaximumStrictly(completed, max) == completed > max
reachedMaximum(completed, max) == completed >= max

\* Where the loop goes after the catch block of the per-job try.
afterJobExceptionRethrow(pc) == "thrown"
afterJobException(pc) == pc

AttemptOutcomes == {"success", "failure", "exception"}

\* The scores the discovery of each driver gives its cards: the discovery
\* of discoverAndApplyToJobs starts every card at 60 and only adds to it, the
\* one of runBatchApplications starts at 50.
cardScores(d) ==
    IF d = "runBatchApplications" THEN JobScores ELSE { sc \in JobScores : sc >= 60 }

\* scoredJobs.sort((a, b) => b.score - a.score): stable, highest first
RECURSIVE insertByScore(_, _)
insertByScore(sorted, sc) ==
    IF sorted = <<>> THEN <<sc>>
    ELSE IF Head(sorted) >= sc THEN <<Head(sorted)>> \o insertByScore(Tail(sorted), sc)
         ELSE <<sc>> \o sorted

RECURSIVE sortByScore(_)
sortByScore(js) ==
    IF js = <<>> THEN <<>>
    ELSE insertByScore(sortByScore(SubSeq(js, 1, Len(js) - 1)), js[Len(js)])

\* What discoverJobs hands each driver: the cards in page order, which only
\* the discovery of runBatchApplications sorts.
discoverJobsOf(d, cards) ==
    IF d = "runBatchApplications" THEN sortByScore(cards) ELSE cards

InitBatch ==
    /\ driver \in {"discoverAndApplyToJobs", "runBatchApplications"}
    /\ maxApplications \in 0..MaxMaximum
    /\ jobs \in { discoverJobsOf(driver, cards) :
                     cards \in UNION { [1..n -> cardScores(driver)] : n \in 0..MaxJobs } }
    /\ jobIdx = 0
    /\ applicationsCompleted = 0
    /\ attemptsStarted = 0
    /\ caught = 0
    /\ bpc = "loop"
    /\ OutsideBatchIdle

\* One pass of the body of `for (const job of ...)`: the attempt, the
\* bookkeeping on its result, and the wait that follows, inside try/catch.
BatchBody(d) ==
    /\ bpc = "loop"
    /\ driver = d
    /\ jobIdx < Len(candidatesOf(driver, jobs, maxApplications))
    /\ \E outcome \in AttemptOutcomes, waitThrows \in BOOLEAN :
        /\ attemptsStarted' = attemptsStarted + 1
        /\ applicationsCompleted' =
              IF outcome = "success" THEN applicationsCompleted + 1
                                     ELSE applicationsCompleted
        /\ caught' = IF outcome = "exception" \/ waitThrows THEN caught + 1 ELSE caught
        /\ bpc' = IF outcome = "exception" \/ waitThrows THEN afterJobException(bpc)
                                                          ELSE bpc
    /\ jobIdx' = jobIdx + 1
    /\ UNCHANGED <<driver, maxApplications, jobs, outsideBatch>>

\* discoverAndApplyToJobs: the loop body behind its break test
DiscoverAndApplyNext ==
    /\ ~reachedMaximum(applicationsCompleted, maxApplications)
    /\ BatchBody("discoverAndApplyToJobs")

\* discoverAndApplyToJobs: `break` once enough applications are completed
DiscoverAndApplyBreak ==
    /\ bpc = "loop"
    /\ driver = "discoverAndApplyToJobs"
    /\ jobIdx < Len(candidatesOf(driver, jobs, maxApplications))
    /\ reachedMaximum(applicationsCompleted, maxApplications)
    /\ bpc' = "done"
    /\ UNCHANGED <<driver, maxApplications, jobs, jobIdx, applicationsCompleted,
                   attemptsStarted, caught, outsideBatch>>

\* runBatchApplications: the loop body
RunBatchNext ==
    /\ driver = "runBatchApplications"
    /\ BatchBody("runBatchApplications")

\* The candidates are exhausted: the loop ends and the driver returns.
BatchReturn ==
    /\ bpc = "loop"
    /\ jobIdx = Len(candidatesOf(driver, jobs, maxApplications))
    /\ bpc' = "done"
    /\ UNCHANGED <<driver, maxApplications, jobs, jobIdx, applicationsCompleted,
                   attemptsStarted, caught, outsideBatch>>

NextBatch ==
    \/ DiscoverAndApplyNext
    \/ DiscoverAndApplyBreak
    \/ RunBatchNext
    \/ BatchReturn

SpecBatch == InitBatch /\ [][NextBatch]_vars

\* C12 as stated: the attempts started never exceed the explicit maximum.
C12_AsStated ==
    attemptsStarted <= maxApplications

\* C12: the successful applications never exceed the explicit maximum and the
\* attempts started never exceed the number of candidates; the attempts are
\* capped by the maximum itself in runBatchApplications only. A finished loop
\* has exhausted its candidates or, in discoverAndApplyToJobs, has completed
\* the maximum of applications.
C12_AttemptsCapped ==
    /\ applicationsCompleted <= maxApplications
    /\ attemptsStarted <= Len(highScoring(jobs))
    /\ attemptsStarted = jobIdx
    /\ driver = "runBatchApplications" => attemptsStarted <= maxApplications
    /\ bpc = "done" =>
          \/ jobIdx = Len(candidatesOf(driver, jobs, maxApplications))
          \/ driver = "discoverAndApplyToJobs" /\ applicationsCompleted = maxApplications

C12_Witness ==
    /\ bpc = "done"
    /\ driver = "discoverAndApplyToJobs"
    /\ maxApplications = 1
    /\ attemptsStarted = 3
    /\ applicationsCompleted = 1

\* C13: an exception raised while processing a job never ends the batch:
\* the loop never leaves by a rejection, and a finished loop has gone past
\* every candidate (or has stopped on its maximum), whatever was caught.
C13_ExceptionNeverFatal ==
    /\ bpc \in {"loop", "done"}
    /\ bpc = "done" =>
          \/ jobIdx = Len(candidatesOf(driver, jobs, maxApplications))
          \/ reachedMaximum(applicationsCompleted, maxApplications)

C13_Witness ==
    /\ bpc = "done"
    /\ Len(candidatesOf(driver, jobs, maxApplications)) = 3
    /\ caught = 3
    /\ jobIdx = 3

\* The jobs the loop has attempted so far, in order
attemptedJobs == SubSeq(candidatesOf(driver, jobs, maxApplications), 1, jobIdx)

\* C31: jobs are attempted highest-score-first: within one run no job is
\* attempted after a job with a strictly lower score, and no job below the
\* score floor is attempted.
C31_HighestScoreFirst ==
    bpc # "off" =>
        /\ \A i, j \in 1..Len(attemptedJobs) :
              i < j => attemptedJobs[i] >= attemptedJobs[j]
        /\ \A i \in 1..Len(attemptedJobs) : attemptedJobs[i] >= MinScore

(***************************************************************************)
(* Form fill and submit of one generic attempt:                            *)
(* fillBasicInformation (which calls itself again) and the head of         *)
(* submitApplicationForm                                                   *)
(***************************************************************************)
\* What handleCaptcha reports: no challenge, a challenge handled, a failure.
CaptchaOutcomes == {"none", "solved", "failed"}

\* The callers of handleCaptcha read its result for logging only.
afterCaptchaAbort(outcome, next) == IF outcome = "failed" THEN "done" ELSE next
afterCaptcha(outcome, next) == next

\* error.message.includes('Execution context was destroyed') ||
\* error.message.includes('navigation')
ErrorKinds == {"navigation", "other"}
isNavigationError(kind) == kind = "navigation"

Step(step, at, outcome) == [ step |-> step, at |-> at, outcome |-> outcome ]

InitFill ==
    /\ fpc = "captcha1"
    /\ fillCalls = 1
    /\ reprobes = 0
    /\ navRetries = 0
    /\ inTrySite = FALSE
    /\ prev = NoStep
    /\ fillOutcome = "none"
    /\ OutsideFillIdle

\* fillBasicInformation lines 1103-1107
HandleCaptchaBeforeFill ==
    /\ fpc = "captcha1"
    /\ \E r \in CaptchaOutcomes :
        /\ fpc' = afterCaptcha(r, "iframes")
        /\ prev' = Step("captcha", "preFill", r)
    /\ UNCHANGED <<fillCalls, reprobes, navRetries, inTrySite, fillOutcome, outsideFill>>

\* lines 1109-1114: a form handled inside an iframe ends the fill at once
HandleIframeForms ==
    /\ fpc = "iframes"
    /\ \E handled \in BOOLEAN :
        /\ fpc' = IF handled THEN "returned" ELSE "probe"
        /\ fillOutcome' = IF handled THEN "iframe" ELSE fillOutcome
        /\ prev' = Step("iframes", "fill", IF handled THEN "handled" ELSE "none")
    /\ UNCHANGED <<fillCalls, reprobes, navRetries, inTrySite, outsideFill>>

\* lines 1116-1225: the fill pass over the fields of the page
FillPass ==
    /\ fpc = "probe"
    /\ \E found \in {"zero", "some"} :
        /\ fpc' = IF found = "zero" THEN "reprobe" ELSE "rest"
        /\ prev' = Step("probe", "fill", found)
    /\ UNCHANGED <<fillCalls, reprobes, navRetries, inTrySite, fillOutcome, outsideFill>>

\* lines 1227-1243: no field found; wait, probe again, and start over when
\* fields have appeared
ReProbe ==
    /\ fpc = "reprobe"
    /\ reprobes' = reprobes + 1
    /\ \E found \in {"zero", "some"} :
        /\ found = "some" => fillCalls < MaxFillCalls
        /\ fpc' = IF found = "some" THEN "captcha1" ELSE "rest"
        /\ fillCalls' = IF found = "some" THEN fillCalls + 1 ELSE fillCalls
        /\ inTrySite' = (inTrySite \/ found = "some")
        /\ prev' = Step("reprobe", "fill", found)
    /\ UNCHANGED <<navRetries, fillOutcome, outsideFill>>

\* lines 1245-1252: textareas, file uploads, radio buttons and toggles
FillRest ==
    /\ fpc = "rest"
    /\ fpc' = "captcha2"
    /\ prev' = Step("rest", "fill", "none")
    /\ UNCHANGED <<fillCalls, reprobes, navRetries, inTrySite, fillOutcome, outsideFill>>

\* lines 1253-1259
HandleCaptchaAfterFill ==
    /\ fpc = "captcha2"
    /\ \E r \in CaptchaOutcomes :
        /\ fpc' = afterCaptcha(r, "returned")
        /\ prev' = Step("captcha", "postFill", r)
    /\ fillOutcome' = "filled"
    /\ UNCHANGED <<fillCalls, reprobes, navRetries, inTrySite, outsideFill>>

\* lines 1261-1272: a page primitive of the try block rejects. A navigation
\* error waits and starts the fill over; any other error returns an empty
\* result. The wait inside the catch may reject itself.
FillInterrupted ==
    /\ fpc \in {"captcha1", "probe", "reprobe"}
    /\ \E kind \in ErrorKinds, waitThrows \in BOOLEAN :
        IF isNavigationError(kind)
        THEN /\ fillCalls < MaxFillCalls
             /\ IF waitThrows
                THEN /\ fpc' = IF inTrySite THEN "returned" ELSE "thrown"
                     /\ fillOutcome' = IF inTrySite THEN "empty" ELSE "thrown"
                     /\ UNCHANGED <<fillCalls, navRetries>>
                ELSE /\ fpc' = "captcha1"
                     /\ fillCalls' = fillCalls + 1
                     /\ navRetries' = navRetries + 1
                     /\ UNCHANGED fillOutcome
             /\ prev' = Step("catch", "fill", kind)
        ELSE /\ fpc' = "returned"
             /\ fillOutcome' = "empty"
             /\ prev' = Step("catch", "fill", kind)
             /\ UNCHANGED <<fillCalls, navRetries>>
    /\ UNCHANGED <<reprobes, inTrySite, outsideFill>>

\* submitApplicationForm lines 2445-2554: screenshots, then the search for a
\* submit control
LocateSubmit ==
    /\ fpc = "returned"
    /\ \E found \in {"found", "none", "throw"} :
        /\ fpc' = IF found = "found" THEN "captcha3" ELSE "done"
        /\ prev' = Step("locate", "submit", found)
    /\ UNCHANGED <<fillCalls, reprobes, navRetries, inTrySite, fillOutcome, outsideFill>>

\* lines 2558-2564
HandleCaptchaBeforeSubmit ==
    /\ fpc = "captcha3"
    /\ \E r \in CaptchaOutcomes :
        /\ fpc' = afterCaptcha(r, "click")
        /\ prev' = Step("captcha", "preSubmit", r)
    /\ UNCHANGED <<fillCalls, reprobes, navRetries, inTrySite, fillOutcome, outsideFill>>

\* lines 2566-2585: the click on the submit control
ClickSubmit ==
    /\ fpc = "click"
    /\ fpc' = "done"
    /\ prev' = Step("click", "submit", "none")
    /\ UNCHANGED <<fillCalls, reprobes, navRetries, inTrySite, fillOutcome, outsideFill>>

NextFill ==
    \/ HandleCaptchaBeforeFill
    \/ HandleIframeForms
    \/ FillPass
    \/ ReProbe
    \/ FillRest
    \/ HandleCaptchaAfterFill
    \/ FillInterrupted
    \/ LocateSubmit
    \/ HandleCaptchaBeforeSubmit
    \/ ClickSubmit

SpecFill == InitFill /\ [][NextFill]_vars

\* C14: an operation interrupted by a navigation is retried exactly once; a
\* second interruption surfaces as a failure instead of a second retry, so one
\* fill operation never counts more than one navigation retry.
C14_RetriedOnce == navRetries <= 1

\* C15: a fill pass that finds zero fields is followed by one re-probe and
\* then gives up, so one fill operation never counts more than one re-probe.
C15_ReprobedOnce == reprobes <= 1

\* C18: whenever handleCaptcha returns failure (before the fill, after the
\* fill, or before the submit click) the caller is at its next action: the
\* iframe check, the return to the caller that goes on to submit, or the click.
C18_FailureNotFatal ==
    (prev.step = "captcha" /\ prev.outcome = "failed") =>
        fpc = CASE prev.at = "preFill"   -> "iframes"
                [] prev.at = "postFill"  -> "returned"
                [] prev.at = "preSubmit" -> "click"

\* A failed challenge right before the submit click, with the click pending.
C18_Witness == prev = Step("captcha", "preSubmit", "failed") /\ fpc = "click"

(***************************************************************************)
(* handleCaptcha and its sub-handlers                                      *)
(***************************************************************************)
CaptchaTypes == {"cloudflare", "recaptcha", "hcaptcha", "simple"}

\* The if / else-if chain of handleCaptcha over captchaInfo.types.
dispatchRecaptchaFirst(types) ==
    IF "recaptcha" \in types THEN "recaptcha"
    ELSE IF "cloudflare" \in types THEN "cloudflare"
    ELSE IF "hcaptcha" \in types THEN "hcaptcha"
    ELSE IF "simple" \in types THEN "simple"
    ELSE "none"
dispatchCaptcha(types) ==
    IF "cloudflare" \in types THEN "cloudflare"
    ELSE IF "recaptcha" \in types THEN "recaptcha"
    ELSE IF "hcaptcha" \in types THEN "hcaptcha"
    ELSE IF "simple" \in types THEN "simple"
    ELSE "none"

\* The page as isCaptchaSolved finds it: challenge markup gone, a response
\* token present, a non-hidden input present; the evaluate may reject.
PageStates ==
    [ gone : BOOLEAN, token : BOOLEAN, accessible : BOOLEAN, probe : {"ok", "throws"} ]

isCaptchaSolvedStrict(pg) == pg.probe = "ok" /\ (pg.gone \/ pg.token)
isCaptchaSolved(pg) ==
    IF pg.probe = "throws" THEN FALSE
    ELSE pg.gone \/ pg.token \/ pg.accessible

captchaSuccess(type) == [ success |-> TRUE, captchaType |-> type, error |-> "unset" ]
captchaChecked(type, pg) ==
    [ success |-> isCaptchaSolved(pg), captchaType |-> type, error |-> "unset" ]
captchaFailure(err) == [ success |-> FALSE, captchaType |-> "unset", error |-> err ]

InitCaptcha ==
    /\ markers \in SUBSET CaptchaTypes
    /\ cpc = "detect"
    /\ handledAs = "none"
    /\ clicked = FALSE
    /\ after = NoAfter
    /\ captchaResult = NoCaptchaResult
    /\ OutsideCaptchaIdle

\* handleCaptcha lines 1434-1516: the marker probe and the dispatch
DetectCaptcha ==
    /\ cpc = "detect"
    /\ \E throws \in BOOLEAN :
        IF throws
        THEN /\ cpc' = "done"
             /\ captchaResult' = captchaFailure("exception")
             /\ UNCHANGED handledAs
        ELSE IF markers = {}
        THEN /\ cpc' = "done"
             /\ captchaResult' = captchaSuccess("none")
             /\ UNCHANGED handledAs
        ELSE /\ cpc' = "handle"
             /\ handledAs' = dispatchCaptcha(markers)
             /\ UNCHANGED captchaResult
    /\ UNCHANGED <<markers, clicked, after, outsideCaptcha>>

\* handleCloudflareCaptcha lines 1518-1582
HandleCloudflareCaptcha ==
    /\ cpc = "handle"
    /\ handledAs = "cloudflare"
    /\ \E throws \in BOOLEAN, click \in BOOLEAN, apiKey \in BOOLEAN, pg \in PageStates :
        IF throws
        THEN /\ captchaResult' = captchaFailure("exception")
             /\ UNCHANGED <<clicked, after>>
        ELSE IF ~click /\ apiKey
        THEN /\ captchaResult' = captchaFailure("2captcha not configured")
             /\ UNCHANGED <<clicked, after>>
        ELSE /\ captchaResult' = captchaChecked("cloudflare", pg)
             /\ clicked' = click
             /\ after' = pg
    /\ cpc' = "done"
    /\ UNCHANGED <<markers, handledAs, outsideCaptcha>>

\* handleRecaptcha lines 1584-1651
HandleRecaptcha ==
    /\ cpc = "handle"
    /\ handledAs = "recaptcha"
    /\ \E throws \in BOOLEAN, invisible \in BOOLEAN, click \in BOOLEAN,
          hasChallenge \in BOOLEAN, apiKey \in BOOLEAN, pg \in PageStates :
        IF throws
        THEN /\ captchaResult' = captchaFailure("exception")
             /\ UNCHANGED <<clicked, after>>
        ELSE IF invisible
        THEN /\ captchaResult' = captchaSuccess("recaptcha-invisible")
             /\ UNCHANGED <<clicked, after>>
        ELSE IF click /\ hasChallenge /\ apiKey
        THEN /\ captchaResult' = captchaFailure("2captcha not configured")
             /\ clicked' = TRUE
             /\ UNCHANGED after
        ELSE /\ captchaResult' = captchaChecked("recaptcha", pg)
             /\ clicked' = click
             /\ after' = pg
    /\ cpc' = "done"
    /\ UNCHANGED <<markers, handledAs, outsideCaptcha>>

\* handleHcaptcha lines 1653-1686
HandleHcaptcha ==
    /\ cpc = "handle"
    /\ handledAs = "hcaptcha"
    /\ \E throws \in BOOLEAN, click \in BOOLEAN, apiKey \in BOOLEAN, pg \in PageStates :
        IF throws
        THEN /\ captchaResult' = captchaFailure("exception")
             /\ UNCHANGED <<clicked, after>>
        ELSE IF click /\ apiKey
        THEN /\ captchaResult' = captchaFailure("2captcha not configured")
             /\ clicked' = TRUE
             /\ UNCHANGED after
        ELSE /\ captchaResult' = captchaChecked("hcaptcha", pg)
             /\ clicked' = click
             /\ after' = pg
    /\ cpc' = "done"
    /\ UNCHANGED <<markers, handledAs, outsideCaptcha>>

\* handleSimpleCaptcha lines 1688-1733: success as soon as the box was clicked
HandleSimpleCaptcha ==
    /\ cpc = "handle"
    /\ handledAs = "simple"
    /\ \E throws \in BOOLEAN, click \in BOOLEAN :
        IF throws
        THEN /\ captchaResult' = captchaFailure("exception")
             /\ UNCHANGED clicked
        ELSE /\ captchaResult' = IF click THEN captchaSuccess("simple")
                                 ELSE captchaFailure("Could not find CAPTCHA checkbox")
             /\ clicked' = click
    /\ cpc' = "done"
    /\ UNCHANGED <<markers, handledAs, after, outsideCaptcha>>

NextCaptcha ==
    \/ DetectCaptcha
    \/ HandleCloudflareCaptcha
    \/ HandleRecaptcha
    \/ HandleHcaptcha
    \/ HandleSimpleCaptcha

SpecCaptcha == InitCaptcha /\ [][NextCaptcha]_vars

Precedence == <<"cloudflare", "recaptcha", "hcaptcha", "simple">>

\* C16: when markers of several types co-occur, the challenge is handled as
\* the type of highest precedence present (Cloudflare, then reCAPTCHA, then
\* hCaptcha, then the simple checkbox), and the result names no other type;
\* a page without markers is reported as 'none'.
C16_PrecedenceOrder ==
    /\ \A i \in 1..Len(Precedence) :
        ( /\ cpc \in {"handle", "done"}
          /\ Precedence[i] \in markers
          /\ \A j \in 1..(i - 1) : Precedence[j] \notin markers
          /\ captchaResult.error # "exception" \/ handledAs # "none" )
        => ( /\ handledAs = Precedence[i]
             /\ captchaResult.captchaType \in
                  {"unset", Precedence[i]}
                  \cup (IF Precedence[i] = "recaptcha" THEN {"recaptcha-invisible"} ELSE {}) )
    /\ (cpc = "done" /\ markers = {} /\ captchaResult.success)
        => captchaResult.captchaType = "none"

\* A page with Cloudflare and reCAPTCHA markers handled as Cloudflare.
C16_Witness ==
    /\ cpc = "done"
    /\ {"cloudflare", "recaptcha"} \subseteq markers
    /\ handledAs = "cloudflare"
    /\ captchaResult.captchaType = "cloudflare"

\* A sub-handler that clicked and then asked isCaptchaSolved.
CheckboxAttemptChecked == cpc = "done" /\ clicked /\ after.probe # "none"

\* C17 as stated: after a checkbox attempt the challenge is reported solved
\* exactly when the markup has disappeared or a response token is present.
C17_AsStated ==
    CheckboxAttemptChecked => (captchaResult.success <=> (after.gone \/ after.token))

\* C17: after a Cloudflare, reCAPTCHA or hCaptcha checkbox attempt that
\* reaches the solved check, the challenge is reported solved exactly when the
\* probe completes and the markup has disappeared, or a response token is
\* present, or the page has a non-hidden input; a clicked simple checkbox is
\* reported solved without a look at the page.
C17_SolvedCheck ==
    /\ CheckboxAttemptChecked =>
        (captchaResult.success <=>
            (after.probe = "ok" /\ (after.gone \/ after.token \/ after.accessible)))
    /\ (cpc = "done" /\ handledAs = "simple" /\ clicked) =>
        (captchaResult.success /\ after = NoAfter)

\* Markup still present, no token, a visible input: reported solved.
C17_Witness ==
    /\ CheckboxAttemptChecked
    /\ after = [ gone |-> FALSE, token |-> FALSE, accessible |-> TRUE, probe |-> "ok" ]
    /\ captchaResult.success

\* C19: in every attempt, for every handler variant, handleCaptcha is invoked
\* before the form fill, again after it, and once more right before the submit
\* click.
C19_ChallengeAroundFillAndSubmit ==
    /\ formFilled => "preFill" \in challengeCalls
    /\ (formFilled /\ hpc = "done" /\ result.success) => "postFill" \in challengeCalls
    /\ submitClicked => "preSubmit" \in challengeCalls

\* C20 as stated: a failed Workday login leads to the password reset on
\* incorrect_password, to the account creation on account_not_found, and ends
\* the login step with the error login_failed on every other failure.
C20_AsStated ==
    (platform = "workday" /\ loginAttempt.reason \notin {"none", "ok"}) =>
        CASE loginAttempt.reason = "incorrect_password" -> loginAttempt.flow = "reset"
          [] loginAttempt.reason = "account_not_found"  -> loginAttempt.flow = "created"
          [] OTHER -> /\ loginAttempt.flow = "login"
                      /\ hpc = "done"
                      /\ result.error = "login_failed"

\* C20: a failed Workday login leads to the password reset on
\* incorrect_password, to the account creation on account_not_found, and on
\* every other failure ends the login step, and the handler run, with the
\* error 'Could not login to Workday'.
C20_FailureReasonBranches ==
    (platform = "workday" /\ loginAttempt.reason \notin {"none", "ok"}) =>
        CASE loginAttempt.reason = "incorrect_password" -> loginAttempt.flow = "reset"
          [] loginAttempt.reason = "account_not_found"  -> loginAttempt.flow = "created"
          [] OTHER -> /\ loginAttempt.flow = "login"
                      /\ hpc = "done"
                      /\ result.success = FALSE
                      /\ result.error = "Could not login to Workday"

\* An unclassified login failure that ended the handler run.
C20_Witness ==
    /\ platform = "workday"
    /\ loginAttempt = [ reason |-> "login_failed", flow |-> "login" ]
    /\ hpc = "done"
    /\ result.error = "Could not login to Workday"

\* C36: a handler moves from LoginOrAccountResolution to FormDetection only
\* when the session is authenticated: it was already logged in, a login was
\* verified as successful, or the page asked for no login at all. A started
\* password reset, a filled account form or a clicked login button whose
\* result was not verified does not let the pipeline proceed.
C36_ProceedsOnlyAuthenticated ==
    (platform \in ClassHandlers /\ "FormDetection" \in Range(trace)) =>
        \/ loginVia \in {"already", "notRequired"}
        \/ platform = "workday" /\ loginVia = "login"

(***************************************************************************)
(* Application modal: handleWorkdayApplicationModal and                    *)
(* handleLeverApplicationModal choose the control to click                 *)
(***************************************************************************)
\* Lower-cased texts of the controls a modal may offer.
ButtonTexts ==
    { "autofill with resume", "apply manually", "apply with linkedin",
      "use my last application", "continue", "submit", "cancel" }

\* text.includes(needle) for the needles the two routines test.
textIncludes(text, needle) ==
    CASE needle = "autofill" -> text = "autofill with resume"
      [] needle = "resume"   -> text = "autofill with resume"
      [] needle = "apply manually" -> text = "apply manually"
      [] needle = "manual"   -> text = "apply manually"
      [] needle = "linkedin" -> text = "apply with linkedin"
      [] needle = "use my last application" -> text = "use my last application"
      [] needle = "apply"    -> text \in {"apply manually", "apply with linkedin"}
      [] needle = "continue" -> text = "continue"
      [] needle = "submit"   -> text = "submit"
      [] OTHER               -> FALSE

includesAny(text, needles) == \E n \in needles : textIncludes(text, n)

\* Index of the first element of a sequence of texts that includes one of the
\* needles, 0 when there is none: `for (const button of allButtons) ... break`.
firstIncluding(texts, needles) ==
    LET hits == { i \in 1..Len(texts) : includesAny(texts[i], needles) }
    IN  IF hits = {} THEN 0 ELSE CHOOSE i \in hits : \A j \in hits : i <= j

WorkdaySpecific ==
    {"autofill", "resume", "apply manually", "manual", "linkedin", "use my last application"}
WorkdayResidual == {"apply", "start", "continue"}
LeverNeedles    == {"submit", "apply", "continue", "next"}

\* The priority classes the Workday comment names, best first.
WorkdayClasses ==
    << {"autofill", "resume"}, {"apply manually", "manual"}, {"linkedin"},
       {"use my last application"}, WorkdayResidual >>

\* handleWorkdayApplicationModal: one scan that stops at the first control
\* of any specific class, then a scan for a residual control.
selectWorkdayButton(texts) ==
    IF firstIncluding(texts, WorkdaySpecific) # 0
    THEN firstIncluding(texts, WorkdaySpecific)
    ELSE firstIncluding(texts, WorkdayResidual)

\* handleLeverApplicationModal: one scan over submit/apply/continue/next.
selectLeverButton(texts) == firstIncluding(texts, LeverNeedles)

InitModal ==
    /\ modalPlatform \in {"workday", "lever"}
    /\ modalButtons \in UNION { [1..n -> ButtonTexts] : n \in 0..MaxButtons }
    /\ selectedButton = 0
    /\ mpc = "open"
    /\ OutsideModalIdle

HandleWorkdayApplicationModal ==
    /\ mpc = "open"
    /\ modalPlatform = "workday"
    /\ selectedButton' = selectWorkdayButton(modalButtons)
    /\ mpc' = "done"
    /\ UNCHANGED <<modalPlatform, modalButtons, outsideModal>>

HandleLeverApplicationModal ==
    /\ mpc = "open"
    /\ modalPlatform = "lever"
    /\ selectedButton' = selectLeverButton(modalButtons)
    /\ mpc' = "done"
    /\ UNCHANGED <<modalPlatform, modalButtons, outsideModal>>

NextModal ==
    \/ HandleWorkdayApplicationModal
    \/ HandleLeverApplicationModal

SpecModal == InitModal /\ [][NextModal]_vars

\* Rank of a control text in the stated priority order (1 is best).
pathRank(text) ==
    IF \E c \in 1..Len(WorkdayClasses) : includesAny(text, WorkdayClasses[c])
    THEN CHOOSE c \in 1..Len(WorkdayClasses) :
            /\ includesAny(text, WorkdayClasses[c])
            /\ \A d \in 1..(c - 1) : ~includesAny(text, WorkdayClasses[d])
    ELSE Len(WorkdayClasses) + 1

\* C21: when a modal offers several apply paths, the clicked control belongs
\* to the highest-priority path present (resume-autofill, manual,
\* LinkedIn-assisted, use-last-application, residual apply/continue),
\* whatever the order of the controls in the modal.
C21_HighestPriorityPath ==
    (mpc = "done" /\ modalPlatform = "workday") =>
        /\ selectedButton = 0 =>
              \A i \in 1..Len(modalButtons) :
                  pathRank(modalButtons[i]) = Len(WorkdayClasses) + 1
        /\ selectedButton # 0 =>
              \A i \in 1..Len(modalButtons) :
                  pathRank(modalButtons[selectedButton]) <= pathRank(modalButtons[i])

\* C22: whenever the form detection finds neither a fillable field nor a
\* form container the attempt fails there: no variant goes on to fill or to
\* submit, or reports success.
C22_NoFormIsHardFailure ==
    formSeen = "absent" =>
        /\ ~formFilled
        /\ ~submitClicked
        /\ hpc = "done" /\ ~result.success

(***************************************************************************)
(* Control scans of the orchestrator: findAndClickExternalApplyButton with *)
(* the branch clickApplyButton takes on its result, and the submit-button  *)
(* search and click of submitApplicationForm                               *)
(***************************************************************************)
\* Lower-cased texts of the controls of an external page, each with the
\* needles of the two routines it includes.
ApplyTexts ==
    { "apply now", "apply with linkedin", "refer a friend and start earning",
      "next", "about us" }
SubmitTexts == { "send application", "back", "english" }

controlWords(text) ==
    CASE text = "apply now"           -> {"apply"}
      [] text = "apply with linkedin" -> {"apply", "linkedin"}
      [] text = "refer a friend and start earning" -> {"refer", "start", "earn"}
      [] text = "next"                -> {"next"}
      [] text = "back"                -> {"back"}
      [] text = "english"             -> {"english"}
      [] OTHER                        -> {}

lowerTextIncludesAny(text, needles) == controlWords(text) \cap needles # {}

\* `styled`: the control matches a selector of the routine's specific list
\* (a class selector for apply, type="submit" for submit).
ControlsOf(texts) == [ text : texts, styled : BOOLEAN ]

firstControl(cs, pred(_)) ==
    LET hits == { i \in 1..Len(cs) : pred(cs[i]) }
    IN  IF hits = {} THEN 0 ELSE CHOOSE i \in hits : \A j \in hits : i <= j

\* ---- findAndClickExternalApplyButton ----
ApplyDeny     == {"indeed", "linkedin", "refer", "earn"}
FallbackDeny  == {"linkedin", "indeed"}

specificPass(c) ==
    /\ c.styled
    /\ lowerTextIncludesAny(c.text, {"apply", "submit", "continue"})
    /\ ~lowerTextIncludesAny(c.text, ApplyDeny)
allButtonsPass(c) ==
    /\ lowerTextIncludesAny(c.text, {"apply", "submit", "continue", "next"})
    /\ ~lowerTextIncludesAny(c.text, ApplyDeny)
actionButtonsPass(c) ==
    /\ lowerTextIncludesAny(c.text, {"start", "begin", "proceed", "continue", "next"})
    /\ ~lowerTextIncludesAny(c.text, FallbackDeny)

applyButtonOf(cs) ==
    IF firstControl(cs, specificPass) # 0 THEN firstControl(cs, specificPass)
    ELSE IF firstControl(cs, allButtonsPass) # 0 THEN firstControl(cs, allButtonsPass)
    ELSE firstControl(cs, actionButtonsPass)

\* No control clicked: a page that already shows the form counts as success.
formPageNever(hasForm) == FALSE
formPageFallback(hasForm) == hasForm

findAndClickExternalApplyButton(cs, hasForm, throws) ==
    IF throws
    THEN [ clicked |-> 0,
           result  |-> [ success |-> FALSE, formPage |-> FALSE, selector |-> "none",
                         error |-> "exception" ] ]
    ELSE IF applyButtonOf(cs) # 0
    THEN [ clicked |-> applyButtonOf(cs),
           result  |-> [ success |-> TRUE, formPage |-> FALSE, selector |-> "none",
                         error |-> "unset" ] ]
    ELSE IF formPageFallback(hasForm)
    THEN [ clicked |-> 0,
           result  |-> [ success |-> TRUE, formPage |-> TRUE, selector |-> "none",
                         error |-> "unset" ] ]
    ELSE [ clicked |-> 0,
           result  |-> [ success |-> FALSE, formPage |-> FALSE, selector |-> "none",
                         error |-> "No apply button found" ] ]

\* ---- submit-button search of submitApplicationForm ----
SubmitDeny ==
    { "back", "cancel", "previous", "english", "spanish", "french", "german",
      "language", "translate", "menu", "home", "search" }

\* The selectors that document.querySelectorAll accepts, in list order,
\* reduced to the first (type="submit") and the last resort (any button).
SubmitSelectors == << "typeSubmit", "anyButton" >>
matchesSelector(c, sel) == sel = "anyButton" \/ c.styled

\* The search skips deny-listed texts and returns the selector, not the control.
locatedSelector(cs) ==
    LET ok(sel) == \E i \in 1..Len(cs) :
                      /\ matchesSelector(cs[i], sel)
                      /\ ~lowerTextIncludesAny(cs[i].text, SubmitDeny)
        hits == { k \in 1..Len(SubmitSelectors) : ok(SubmitSelectors[k]) }
    IN  IF hits = {} THEN "none"
        ELSE SubmitSelectors[CHOOSE k \in hits : \A l \in hits : k <= l]

\* mainPage.click(selector) and the querySelector fallback act on the first
\* element the selector matches.
firstMatch(cs, sel) ==
    LET hits == { i \in 1..Len(cs) : matchesSelector(cs[i], sel) }
    IN  IF hits = {} THEN 0 ELSE CHOOSE i \in hits : \A j \in hits : i <= j

InitScan ==
    /\ scanMode \in {"apply", "submit"}
    /\ controls \in UNION { [1..n -> ControlsOf(IF scanMode = "apply" THEN ApplyTexts
                                                ELSE SubmitTexts)]
                            : n \in 0..MaxControls }
    /\ hasFormFields \in BOOLEAN
    /\ clickedControl = 0
    /\ scanResult = NoScanResult
    /\ spc = "page"
    /\ OutsideScanIdle

FindAndClickExternalApplyButton ==
    /\ scanMode = "apply"
    /\ spc = "page"
    /\ \E throws \in BOOLEAN :
        LET r == findAndClickExternalApplyButton(controls, hasFormFields, throws)
        IN  /\ clickedControl' = r.clicked
            /\ scanResult' = r.result
    /\ spc' = "scanned"
    /\ UNCHANGED <<scanMode, controls, hasFormFields, outsideScan>>

\* clickApplyButton lines 2007-2047: on success the external site is
\* dispatched; otherwise the form check is made again on the same page, and
\* without a form the tab is closed and the attempt fails.
ClickApplyButtonBranch ==
    /\ scanMode = "apply"
    /\ spc = "scanned"
    /\ spc' = IF scanResult.success THEN "dispatch"
              ELSE IF hasFormFields THEN "form"
              ELSE "failed"
    /\ UNCHANGED <<scanMode, controls, hasFormFields, clickedControl, scanResult, outsideScan>>

\* applyToJobWithAI: handleExternalCareerSite, or the on-page form handling.
LaterStateExecutes ==
    /\ scanMode = "apply"
    /\ spc \in {"dispatch", "form"}
    /\ spc' = "done"
    /\ UNCHANGED <<scanMode, controls, hasFormFields, clickedControl, scanResult, outsideScan>>

LocateSubmitButton ==
    /\ scanMode = "submit"
    /\ spc = "page"
    /\ \E throws \in BOOLEAN :
        scanResult' =
            IF throws
            THEN [ success |-> FALSE, formPage |-> FALSE, selector |-> "none",
                   error |-> "exception" ]
            ELSE IF locatedSelector(controls) = "none"
            THEN [ success |-> FALSE, formPage |-> FALSE, selector |-> "none",
                   error |-> "No submit button found" ]
            ELSE [ success |-> TRUE, formPage |-> FALSE,
                   selector |-> locatedSelector(controls), error |-> "unset" ]
    /\ spc' = "scanned"
    /\ UNCHANGED <<scanMode, controls, hasFormFields, clickedControl, outsideScan>>

ClickSubmitButton ==
    /\ scanMode = "submit"
    /\ spc = "scanned"
    /\ clickedControl' = IF scanResult.success
                         THEN firstMatch(controls, scanResult.selector) ELSE 0
    /\ spc' = "done"
    /\ UNCHANGED <<scanMode, controls, hasFormFields, scanResult, outsideScan>>

NextScan ==
    \/ FindAndClickExternalApplyButton
    \/ ClickApplyButtonBranch
    \/ LaterStateExecutes
    \/ LocateSubmitButton
    \/ ClickSubmitButton

SpecScan == InitScan /\ [][NextScan]_vars

\* No control of the page matches the apply allow-list or the fallback list.
NoApplyMatch ==
    \A i \in 1..Len(controls) :
        ~lowerTextIncludesAny(controls[i].text,
            {"apply", "submit", "continue", "next", "start", "begin", "proceed"})

ApplyScanDone == scanMode = "apply" /\ spc # "page" /\ scanResult.error # "exception"

C24_NoClickOnDenied ==
    clickedControl # 0 =>
        ~lowerTextIncludesAny(controls[clickedControl].text,
                              IF scanMode = "apply" THEN ApplyDeny ELSE SubmitDeny)

(***************************************************************************)
(* The field pass of the fill routines and its filledCount:                *)
(* fillBasicInformation of the orchestrator (main page), of the platform   *)
(* handlers, and the pass of handleIframeForms inside a frame              *)
(***************************************************************************)
\* A field whose name, placeholder, id or label selects a branch ("named"),
\* an empty text field filled through its placeholder by the main-page pass
\* only ("generic"), or a field no branch selects ("other").
FieldKinds == {"named", "generic", "other"}
FillRoutines == {"main", "platform", "frame"}

\* Does the pass assign a value to the field and count it?
fillsField(r, kind) ==
    \/ kind = "named"
    \/ kind = "generic" /\ r = "main"

\* The notifications the pass raises on the field: the main-page pass inside
\* every filling branch, the other passes after the branches, on every field.
notificationsInputOnly(r, kind) == IF fillsField(r, kind) THEN {"input"} ELSE {}
notifications(r, kind) ==
    IF r = "main"
    THEN IF fillsField(r, kind) THEN {"input", "change"} ELSE {}
    ELSE {"input", "change"}

InitCount ==
    /\ routine \in FillRoutines
    /\ fields \in UNION { [1..n -> FieldKinds] : n \in 0..MaxFields }
    /\ cursor = 0
    /\ touched = <<>>
    /\ filledCount = 0
    /\ reported = NoCount
    /\ qpc = "pass"
    /\ OutsideCountIdle

\* One iteration of inputs.forEach
FillField ==
    /\ qpc = "pass"
    /\ cursor < Len(fields)
    /\ LET kind == fields[cursor + 1]
       IN  /\ touched' = Append(touched,
                            [ counted |-> fillsField(routine, kind),
                              events  |-> notifications(routine, kind) ])
           /\ filledCount' = filledCount + (IF fillsField(routine, kind) THEN 1 ELSE 0)
    /\ cursor' = cursor + 1
    /\ UNCHANGED <<routine, fields, reported, qpc, outsideCount>>

\* `return { filledCount, totalInputs }` after the last field
ReturnCount ==
    /\ qpc = "pass"
    /\ cursor = Len(fields)
    /\ reported' = [ has |-> TRUE, filledCount |-> filledCount ]
    /\ qpc' = "returned"
    /\ UNCHANGED <<routine, fields, cursor, touched, filledCount, outsideCount>>

\* The evaluate rejects: the main-page routine returns filledCount 0 from its
\* catch, the others return an error without a count.
PassRejected ==
    /\ qpc = "pass"
    /\ reported' = IF routine = "main" THEN [ has |-> TRUE, filledCount |-> 0 ] ELSE NoCount
    /\ touched' = <<>>
    /\ qpc' = "returned"
    /\ UNCHANGED <<routine, fields, cursor, filledCount, outsideCount>>

NextCount ==
    \/ FillField
    \/ ReturnCount
    \/ PassRejected

SpecCount == InitCount /\ [][NextCount]_vars

\* C25: every fill that filledCount counts raised both an input and a change
\* notification on the filled field, in the main-page, the per-platform and
\* the sub-frame pass, and the reported count is the number of such fills.
C25_CountedFillsNotified ==
    /\ \A i \in 1..Len(touched) :
          touched[i].counted => {"input", "change"} \subseteq touched[i].events
    /\ (qpc = "returned" /\ reported.has) =>
          reported.filledCount =
              Cardinality({ i \in 1..Len(touched) :
                              touched[i].counted
                              /\ {"input", "change"} \subseteq touched[i].events })

\* A platform pass that counted one field and went through an uncounted one.
C25_Witness ==
    /\ qpc = "returned"
    /\ routine = "platform"
    /\ reported = [ has |-> TRUE, filledCount |-> 1 ]
    /\ Len(touched) = 2

(***************************************************************************)
(* The Workday credentials store: loginToWorkday, saveCompanyCredentials   *)
(* and the account flows, over a sequence of login attempts                *)
(***************************************************************************)
Companies == {"acme", "globex", "nameless"}

\* extractCompanyName: the sub-domain or the page title, else 'unknown'.
companyKey(c) == IF c = "nameless" THEN "unknown" ELSE c

\* What the file system does to one save: both steps complete, the read or
\* the parse of the existing file throws, or the write throws before the
\* file is opened for writing.
StoreIO == {"ok", "readFails", "writeFails"}

\* `if (loginStatus.success) await this.saveCompanyCredentials(companyName)`
savesCredentialsAlways(outcome) == TRUE
savesCredentials(outcome) == outcome = "ok"

\* saveCompanyCredentials: read the whole map, set one key, write the whole
\* map; every exception is caught and logged.
writtenMapOnlyNew(store, key) == {key}
writtenMap(store, key) == store \cup {key}

saveCompanyCredentials(store, key, io) ==
    IF io = "ok" THEN writtenMap(store, key) ELSE store

InitCreds ==
    /\ credStore \in SUBSET {"acme", "unknown"}
    /\ verifiedLogins = {}
    /\ savedFor = {}
    /\ unverifiedWrites = {}
    /\ logins = 0
    /\ lastLogin = NoLogin
    /\ rpc = "idle"
    /\ OutsideCredsIdle

\* loginToWorkday for one company, then the branch of handleWorkdayLogin
LoginToWorkday ==
    /\ rpc = "idle"
    /\ logins < MaxLogins
    /\ \E c \in Companies, outcome \in LoginOutcomes, io \in StoreIO :
        LET saves == savesCredentials(outcome)
            wrote == saves /\ io = "ok"
        IN  /\ credStore' = IF saves
                            THEN saveCompanyCredentials(credStore, companyKey(c), io)
                            ELSE credStore
            /\ verifiedLogins' = IF outcome = "ok" THEN verifiedLogins \cup {c}
                                 ELSE verifiedLogins
            /\ savedFor' = IF outcome = "ok" /\ wrote THEN savedFor \cup {c} ELSE savedFor
            /\ unverifiedWrites' = IF wrote /\ outcome # "ok"
                                   THEN unverifiedWrites \cup {companyKey(c)}
                                   ELSE unverifiedWrites
            /\ lastLogin' = [ company |-> c, outcome |-> outcome,
                              io |-> IF saves THEN io ELSE "none" ]
            /\ rpc' = CASE outcome = "ok" -> "idle"
                        [] errorIncludes(outcome, "account")  -> "create"
                        [] errorIncludes(outcome, "password") -> "reset"
                        [] OTHER -> "idle"
    /\ logins' = logins + 1
    /\ UNCHANGED outsideCreds

\* createWorkdayAccount: fills and submits the form; the store is not touched
CreateWorkdayAccount ==
    /\ rpc = "create"
    /\ rpc' = "idle"
    /\ UNCHANGED <<credStore, verifiedLogins, savedFor, unverifiedWrites, logins, lastLogin,
                   outsideCreds>>

\* resetWorkdayPassword: requests the reset mail; the store is not touched
ResetWorkdayPassword ==
    /\ rpc = "reset"
    /\ rpc' = "idle"
    /\ UNCHANGED <<credStore, verifiedLogins, savedFor, unverifiedWrites, logins, lastLogin,
                   outsideCreds>>

NextCreds ==
    \/ LoginToWorkday
    \/ CreateWorkdayAccount
    \/ ResetWorkdayPassword

SpecCreds == InitCreds /\ [][NextCreds]_vars

\* C26: the credentials store is written only after a verified login: no
\* failed login, unknown status, password reset or account creation writes
\* an entry, so a login attempt that was not verified leaves the store as it
\* was.
C26_WriteOnlyAfterVerifiedLogin ==
    /\ unverifiedWrites = {}
    /\ lastLogin.outcome \notin {"none", "ok"} => lastLogin.io = "none"

\* A failed login went through the password reset and wrote nothing, after
\* an earlier verified login had written its entry.
C26_Witness ==
    /\ lastLogin.outcome = "incorrect_password"
    /\ rpc = "idle"
    /\ savedFor = {"globex"}
    /\ "globex" \in credStore

QuestionTypes == {"experience", "general"}

\* What one file operation does: completes or throws
FileIO == {"ok", "fails"}

\* `let submissions = []; try { submissions = JSON.parse(await readFile) }
\*  catch (e) { /* File doesn't exist yet */ }`: whatever makes the read or
\* the parse throw, the list the new entry is pushed onto is the empty one.
loadedSubmissions(stored, read) == IF read = "ok" THEN stored ELSE <<>>

\* The index of the last pair of the type, 0 when there is none:
\* `qa_pairs.filter(pair => pair.question_type === type).pop()`
lastOfType(pairs, type) ==
    LET hits == { i \in 1..Len(pairs) : pairs[i].question_type = type }
    IN  IF hits = {} THEN 0 ELSE CHOOSE i \in hits : \A j \in hits : j <= i

InitSinks ==
    /\ submissions = <<>>
    /\ qaPairs = <<>>
    /\ submissionsBefore = <<>>
    /\ qaPairsBefore = <<>>
    /\ sinkOp = NoSinkOp
    /\ sinkWrites = 0
    /\ OutsideSinksIdle

\* storeSubmissionDetails(details), called after a verified submission
StoreSubmissionDetails ==
    /\ sinkWrites < MaxSinkWrites
    /\ \E read \in FileIO, write \in FileIO :
        /\ submissions' = IF write = "ok"
                          THEN Append(loadedSubmissions(submissions, read),
                                      [ entry |-> sinkWrites + 1 ])
                          ELSE submissions
        /\ sinkOp' = [ op |-> "storeSubmissionDetails", read |-> read, write |-> write ]
    /\ submissionsBefore' = submissions
    /\ qaPairsBefore' = qaPairs
    /\ sinkWrites' = sinkWrites + 1
    /\ UNCHANGED <<qaPairs, outsideSinks>>

\* storeQAPair(question, answer, jobContext), called by generateResponse
StoreQAPair ==
    /\ sinkWrites < MaxSinkWrites
    /\ \E type \in QuestionTypes, io \in FileIO :
        /\ qaPairs' = IF io = "ok"
                      THEN Append(qaPairs, [ entry |-> sinkWrites + 1,
                                             question_type |-> type,
                                             improved |-> FALSE ])
                      ELSE qaPairs
        /\ sinkOp' = [ op |-> "storeQAPair", read |-> io, write |-> io ]
    /\ submissionsBefore' = submissions
    /\ qaPairsBefore' = qaPairs
    /\ sinkWrites' = sinkWrites + 1
    /\ UNCHANGED <<submissions, outsideSinks>>

\* improveResponse(question, jobContext, feedback)
ImproveResponse ==
    /\ sinkWrites < MaxSinkWrites
    /\ \E type \in QuestionTypes, io \in FileIO :
        LET at == lastOfType(qaPairs, type)
        IN  /\ qaPairs' = IF io = "ok" /\ at # 0
                          THEN [ qaPairs EXCEPT ![at].improved = TRUE ]
                          ELSE qaPairs
            /\ sinkOp' = [ op |-> "improveResponse", read |-> io, write |-> io ]
    /\ submissionsBefore' = submissions
    /\ qaPairsBefore' = qaPairs
    /\ sinkWrites' = sinkWrites + 1
    /\ UNCHANGED <<submissions, outsideSinks>>

NextSinks ==
    \/ StoreSubmissionDetails
    \/ StoreQAPair
    \/ ImproveResponse

SpecSinks == InitSinks /\ [][NextSinks]_vars

\* was is kept, unchanged and in order, and at most one entry follows it
appendedTo(was, now) ==
    /\ Len(was) <= Len(now)
    /\ Len(now) <= Len(was) + 1
    /\ \A i \in 1..Len(was) : now[i] = was[i]

\* C28: the result sinks are only appended to: after any write to the
\* submissions log or the answer log, every entry stored before is still
\* there, unchanged and in the same order, followed by at most one new entry.
C28_SinksAppendOnly ==
    sinkOp.op # "none" =>
        /\ appendedTo(submissionsBefore, submissions)
        /\ appendedTo(qaPairsBefore, qaPairs)

(***************************************************************************)
(* One run of a batch driver with its result log: discoverAndApplyToJobs   *)
(* (this.applications) and testBatchApplications (results.applications)    *)
(***************************************************************************)
DefaultMaximum == 10
UniqueLimit == 5

\* Cards discoverJobs can return. Titles and companies are texts, kept as
\* sequences of pieces so that joining them is a computation; a card that is
\* matched twice by the card selectors yields the same job twice.
Discoverable ==
    { [ title |-> <<"Engineer">>,                company |-> <<"acme">>,               score |-> 60 ],
      [ title |-> <<"Engineer", "-", "Cloud">>,  company |-> <<"acme">>,               score |-> 85 ],
      [ title |-> <<"Engineer">>,                company |-> <<"Cloud", "-", "acme">>, score |-> 100 ] }

\* `${job.title}-${job.company}`
jobKey(job) == job.title \o <<"-">> \o job.company

\* The selection loop of the test drivers: first job of every key, in order,
\* stopping at the limit.
RECURSIVE selectUnique(_, _, _)
selectUnique(js, seenJobs, uniqueJobs) ==
    IF js = <<>> \/ Len(uniqueJobs) >= UniqueLimit THEN uniqueJobs
    ELSE IF jobKey(Head(js)) \in seenJobs
         THEN selectUnique(Tail(js), seenJobs, uniqueJobs)
         ELSE selectUnique(Tail(js), seenJobs \cup {jobKey(Head(js))},
                           Append(uniqueJobs, Head(js)))

\* jobs.filter(job => job.score >= 60), on job records
highScoringJobs(js) == SelectSeq(js, LAMBDA job : job.score >= MinScore)

\* The record of one attempt
attemptRecord(k, ok, err) == [ attempt |-> k, success |-> ok, error |-> err ]

\* Paths of one pass of the loop body of testBatchApplications
TestPaths == {"applyFailed", "applyThrew", "submitted", "submitFailed", "noExternal"}

\* The record when its outcome is first set on the path
testOutcome(k, path) ==
    CASE path = "applyFailed"  -> attemptRecord(k, FALSE, "Apply button failed")
      [] path = "applyThrew"   -> attemptRecord(k, FALSE, "exception")
      [] path = "submitted"    -> attemptRecord(k, TRUE, "null")
      [] path = "submitFailed" -> attemptRecord(k, FALSE, "submit")
      [] OTHER                 -> attemptRecord(k, FALSE, "No external site reached")

\* The cleanup between jobs runs inside the try, after the outcome is set,
\* on every path that did not leave by `continue` or by an exception.
reachesCleanup(path) == path \in {"submitted", "submitFailed", "noExternal"}

InitRun ==
    /\ runDriver \in {"discoverAndApplyToJobs", "testBatchApplications"}
    /\ runMaximum \in IF runDriver = "discoverAndApplyToJobs" THEN {1, DefaultMaximum}
                                                              ELSE {DefaultMaximum}
    /\ discovered \in UNION { [1..n -> Discoverable] : n \in 0..MaxDiscovered }
    /\ work = <<>>
    /\ jobAt = 0
    /\ handed = <<>>
    /\ outcomes = <<>>
    /\ resultLog = <<>>
    /\ upc = "select"
    /\ OutsideRunIdle

\* discoverAndApplyToJobs: the score filter in front of the loop
FilterHighScoringJobs ==
    /\ upc = "select"
    /\ runDriver = "discoverAndApplyToJobs"
    /\ work' = highScoringJobs(discovered)
    /\ upc' = "loop"
    /\ UNCHANGED <<runDriver, runMaximum, discovered, jobAt, handed, outcomes, resultLog,
                   outsideRun>>

\* testBatchApplications, step 2: the unique jobs
SelectUniqueJobs ==
    /\ upc = "select"
    /\ runDriver = "testBatchApplications"
    /\ work' = selectUnique(discovered, {}, <<>>)
    /\ upc' = "loop"
    /\ UNCHANGED <<runDriver, runMaximum, discovered, jobAt, handed, outcomes, resultLog,
                   outsideRun>>

\* discoverAndApplyToJobs: one pass of the loop body behind the break test;
\* applicationsCompleted counts the pushes on this.applications.
ApplyToJob ==
    /\ upc = "loop"
    /\ runDriver = "discoverAndApplyToJobs"
    /\ jobAt < Len(work)
    /\ ~reachedMaximum(Len(resultLog), runMaximum)
    /\ \E outcome \in AttemptOutcomes :
        LET k   == Len(handed) + 1
            rec == attemptRecord(k, outcome = "success",
                                 IF outcome = "success" THEN "null" ELSE outcome)
        IN  /\ outcomes' = Append(outcomes, rec)
            /\ resultLog' = IF outcome = "success" THEN Append(resultLog, rec)
                                                   ELSE resultLog
    /\ handed' = Append(handed, work[jobAt + 1])
    /\ jobAt' = jobAt + 1
    /\ UNCHANGED <<runDriver, runMaximum, discovered, work, upc, outsideRun>>

\* testBatchApplications, step 3: one pass of the loop body
ProcessJob ==
    /\ upc = "loop"
    /\ runDriver = "testBatchApplications"
    /\ jobAt < Len(work)
    /\ \E path \in TestPaths, cleanupThrows \in BOOLEAN :
        LET k     == Len(handed) + 1
            first == testOutcome(k, path)
            final == IF reachesCleanup(path) /\ cleanupThrows
                     THEN [ first EXCEPT !.error = "exception" ]
                     ELSE first
        IN  /\ outcomes' = Append(outcomes, first)
            /\ resultLog' = Append(resultLog, final)
    /\ handed' = Append(handed, work[jobAt + 1])
    /\ jobAt' = jobAt + 1
    /\ UNCHANGED <<runDriver, runMaximum, discovered, work, upc, outsideRun>>

\* The loop ends: the list is exhausted, or discoverAndApplyToJobs breaks
RunReturn ==
    /\ upc = "loop"
    /\ \/ jobAt = Len(work)
       \/ runDriver = "discoverAndApplyToJobs" /\ reachedMaximum(Len(resultLog), runMaximum)
    /\ upc' = "done"
    /\ UNCHANGED <<runDriver, runMaximum, discovered, work, jobAt, handed, outcomes,
                   resultLog, outsideRun>>

NextRun ==
    \/ FilterHighScoringJobs
    \/ SelectUniqueJobs
    \/ ApplyToJob
    \/ ProcessJob
    \/ RunReturn

SpecRun == InitRun /\ [][NextRun]_vars

\* The entries of the result log for attempt k
loggedFor(k) == { i \in 1..Len(resultLog) : resultLog[i].attempt = k }

\* C29: every application attempt a driver has started is in the result log
\* exactly once, whatever its outcome, and the logged record is the record as
\* it was when its outcome was set.
C29_EveryAttemptLoggedOnce ==
    /\ \A k \in 1..Len(handed) : Cardinality(loggedFor(k)) = 1
    /\ \A i \in 1..Len(resultLog) : resultLog[i] = outcomes[resultLog[i].attempt]

\* No two positions of the list hold the same (title, company) pair
distinctPairs(js) ==
    \A i, j \in 1..Len(js) :
        (js[i].title = js[j].title /\ js[i].company = js[j].company) => i = j

\* C30: jobs are deduplicated by (title, company) before they are attempted:
\* neither the list the loop iterates nor the jobs handed to the application
\* pipeline in one run hold two jobs with the same pair.
C30_NoSharedPairAttempted ==
    upc # "select" => (distinctPairs(work) /\ distinctPairs(handed))

\* C39: deduplication never treats two jobs with different (title, company)
\* pairs as duplicates: a discovered job is missing from the unique jobs
\* only if an earlier discovered job has exactly the same title and exactly
\* the same company.
C39_DropsOnlySamePair ==
    (runDriver = "testBatchApplications" /\ upc # "select" /\ Len(work) < UniqueLimit) =>
        \A i \in 1..Len(discovered) :
            \/ discovered[i] \in Range(work)
            \/ \E j \in 1..(i - 1) :
                  /\ discovered[j].title = discovered[i].title
                  /\ discovered[j].company = discovered[i].company

(***************************************************************************)
(* The Platform Dispatcher on its own: the classification of               *)
(* handleExternalCareerSite, applied to one destination URL after another  *)
(***************************************************************************)
HandlerVariants ==
    {"workday", "linkedin", "greenhouse", "lever", "bamboohr", "apple", "generic"}

\* Hosts of destination URLs: one per platform of the chain, a second Apple
\* host, a host of no platform, and a host whose label ends in a platform's
\* name ("clever.co").
DestinationHosts ==
    { <<"acme", ".", "wd1", ".", "myworkdayjobs", ".", "com">>,
      <<"jobs", ".", "workday", ".", "com">>,
      <<"www", ".", "linkedin", ".", "com">>,
      <<"boards", ".", "greenhouse", ".", "io">>,
      <<"jobs", ".", "lever", ".", "co">>,
      <<"jobs", ".", "bamboohr", ".", "com">>,
      <<"jobs", ".", "apple", ".", "com">>,
      <<"www", ".", "apple", ".", "com">>,
      <<"careers", ".", "acme", ".", "com">>,
      <<"www", ".", "c", "lever", ".", "co">> }

\* What follows the host: a path, or a path with a query string that names
\* the site the visitor came from.
DestinationTails ==
    { <<"/", "jobs", "/", "1">>,
      <<"/", "apply", "?ref=", "linkedin", ".", "com">>,
      <<"/", "apply", "?ref=", "workday", ".", "com">> }

DestinationUrls == [ host : DestinationHosts, tail : DestinationTails ]

InitDispatch ==
    /\ lastUrl = NoUrl
    /\ lastVariant = "none"
    /\ classified = {}
    /\ classifyCalls = 0
    /\ OutsideDispatchIdle

\* handleExternalCareerSite(externalUrl, job) up to the branch it takes
ClassifyDestination ==
    /\ classifyCalls < MaxDispatches
    /\ \E u \in DestinationUrls :
        /\ lastUrl' = u
        /\ lastVariant' = classify(urlText(u))
        /\ classified' = classified \cup {[ url |-> u, variant |-> classify(urlText(u)) ]}
    /\ classifyCalls' = classifyCalls + 1
    /\ UNCHANGED outsideDispatch

NextDispatch == ClassifyDestination

SpecDispatch == InitDispatch /\ [][NextDispatch]_vars

\* Every pattern of the chain
PlatformPatterns ==
    WorkdayPatterns \cup LinkedInPatterns \cup GreenhousePatterns \cup LeverPatterns
        \cup BambooHRPatterns \cup ApplePatterns

\* C32: the dispatcher is a pure, total function of the destination URL:
\* every classification yields one of the handler variants and never an
\* error, the same URL yields the same variant every time, and a URL that
\* contains no platform pattern yields Generic.
C32_DispatcherPureTotal ==
    /\ \A c \in classified : c.variant \in HandlerVariants
    /\ \A c, d \in classified : c.url = d.url => c.variant = d.variant
    /\ \A c \in classified :
          ~includesOneOf(urlText(c.url), PlatformPatterns) => c.variant = "generic"
    /\ classifyCalls > 0 => lastVariant \in HandlerVariants

\* The same unmatched URL classified twice, Generic both times.
C32_Witness ==
    /\ classifyCalls = 2
    /\ classified = {[ url |-> [ host |-> <<"careers", ".", "acme", ".", "com">>,
                                 tail |-> <<"/", "jobs", "/", "1">> ],
                       variant |-> "generic" ]}

\* The two Workday-style domain patterns of the tests
hasWorkdayDomain(text) ==
    \/ containsPieces(text, <<"workday", ".", "com">>)
    \/ containsPieces(text, <<"wd1", ".", "myworkdayjobs", ".", "com">>)

\* C33: every destination URL that contains a Workday-style domain pattern
\* (workday.com, wd1.myworkdayjobs.com) is dispatched to the Workday variant,
\* and a URL of another platform that contains none, such as one on
\* jobs.apple.com, is not.
C33_WorkdayDomainSelectsWorkday ==
    \A c \in classified :
        /\ hasWorkdayDomain(urlText(c.url)) => c.variant = "workday"
        /\ ~hasWorkdayDomain(urlText(c.url)) => c.variant # "workday"

\* A wd1.myworkdayjobs.com URL went to Workday and a jobs.apple.com URL to Apple.
C33_Witness ==
    /\ [ url |-> [ host |-> <<"acme", ".", "wd1", ".", "myworkdayjobs", ".", "com">>,
                   tail |-> <<"/", "jobs", "/", "1">> ],
         variant |-> "workday" ] \in classified
    /\ [ url |-> [ host |-> <<"jobs", ".", "apple", ".", "com">>,
                   tail |-> <<"/", "jobs", "/", "1">> ],
         variant |-> "apple" ] \in classified

\* The host is the domain or one of its sub-domains
hostUnder(host, domain) ==
    /\ Len(host) >= Len(domain)
    /\ SubSeq(host, Len(host) - Len(domain) + 1, Len(host)) = domain
    /\ Len(host) = Len(domain) \/ host[Len(host) - Len(domain)] = "."

hostUnderAny(host, domains) == \E d \in domains : hostUnder(host, d)

\* The platform a host belongs to
hostPlatform(host) ==
    CASE hostUnderAny(host, WorkdayPatterns)    -> "workday"
      [] hostUnderAny(host, LinkedInPatterns)   -> "linkedin"
      [] hostUnderAny(host, GreenhousePatterns) -> "greenhouse"
      [] hostUnderAny(host, LeverPatterns)      -> "lever"
      [] hostUnderAny(host, BambooHRPatterns)   -> "bamboohr"
      [] hostUnderAny(host, {<<"apple", ".", "com">>}) -> "apple"
      [] OTHER -> "generic"

\* C38: dispatch depends only on the host of the destination URL: a URL on
\* a host of platform X goes to X and a URL on a host of no listed platform
\* goes to Generic, whatever its path and query string contain.
C38_HostDecides ==
    \A c \in classified : c.variant = hostPlatform(c.url.host)

(***************************************************************************)
(* The decision of verifySubmission on its own: one verification record,   *)
(* and the same record with one of its scores raised                       *)
(***************************************************************************)
VerificationRecords ==
    [ successScore      : 0..MaxScore,
      failureScore      : 0..MaxScore,
      hasSuccessElement : BOOLEAN,
      hasErrorElement   : BOOLEAN,
      hasForm           : BOOLEAN,
      hasRequiredFields : BOOLEAN,
      urlIndicators     : [ hasThankYou : BOOLEAN, hasConfirmation : BOOLEAN,
                            hasError : BOOLEAN ] ]

InitDecision ==
    /\ signals \in VerificationRecords
    /\ raisedScore = "none"
    /\ verdictBefore = submittedDecision(signals)
    /\ verdictAfter = submittedDecision(signals)
    /\ OutsideDecisionIdle

\* The decision taken again on a page that shows more success keywords
DecideWithRaisedSuccessScore ==
    /\ raisedScore = "none"
    /\ \E higher \in (signals.successScore + 1)..MaxScore :
        LET raised == [ signals EXCEPT !.successScore = higher ]
        IN  /\ signals' = raised
            /\ verdictAfter' = submittedDecision(raised)
    /\ verdictBefore' = submittedDecision(signals)
    /\ raisedScore' = "successScore"
    /\ UNCHANGED outsideDecision

\* The decision taken again on a page that shows more failure keywords
DecideWithRaisedFailureScore ==
    /\ raisedScore = "none"
    /\ \E higher \in (signals.failureScore + 1)..MaxScore :
        LET raised == [ signals EXCEPT !.failureScore = higher ]
        IN  /\ signals' = raised
            /\ verdictAfter' = submittedDecision(raised)
    /\ verdictBefore' = submittedDecision(signals)
    /\ raisedScore' = "failureScore"
    /\ UNCHANGED outsideDecision

NextDecision ==
    \/ DecideWithRaisedSuccessScore
    \/ DecideWithRaisedFailureScore

SpecDecision == InitDecision /\ [][NextDecision]_vars

\* C34: with the other inputs fixed the decision is monotonic in
\* successScore and anti-monotonic in failureScore: raising successScore
\* never turns submitted from true to false, and raising failureScore never
\* turns it from false to true.
C34_DecisionMonotonic ==
    /\ (raisedScore = "successScore" /\ verdictBefore) => verdictAfter
    /\ (raisedScore = "failureScore" /\ ~verdictBefore) => ~verdictAfter

\* A page decided as not submitted with score 1 against 1, without any other
\* success signal, is decided as submitted once its success score is 2.
C34_Witness ==
    /\ raisedScore = "successScore"
    /\ signals.successScore = 2
    /\ signals.failureScore = 1
    /\ ~signals.hasSuccessElement
    /\ ~verdictBefore
    /\ verdictAfter

(***************************************************************************)
(* The counters of the batch drivers that report totals:                   *)
(* testBatchApplications (results.applications) and runBatchApplications   *)
(* (results.details)                                                       *)
(***************************************************************************)
\* What one pass adds to successful, failed and the records, given the path
\* through the try block and whether the step after the counting (the
\* cleanup and wait of testBatchApplications, the wait of
\* runBatchApplications) throws into the catch block of the same try.
tally(ok, bad, recs) == [ successful |-> ok, failed |-> bad, records |-> recs ]

\* testBatchApplications: one record is pushed behind the try/catch, or
\* before the `continue`; the catch counts a failure.
testPassTally(path, afterThrows) ==
    CASE path = "applyFailed" -> tally(0, 1, 1)
      [] path = "applyThrew"  -> tally(0, 1, 1)
      [] path = "submitted"   -> tally(1, IF afterThrows THEN 1 ELSE 0, 1)
      [] OTHER                -> tally(0, IF afterThrows THEN 2 ELSE 1, 1)

\* runBatchApplications: both branches count and push inside the try, the
\* catch counts a failure and pushes an 'error' record.
runBatchPassTally(outcome, afterThrows) ==
    CASE outcome = "exception" -> tally(0, 1, 1)
      [] outcome = "success"   -> tally(1, IF afterThrows THEN 1 ELSE 0,
                                        IF afterThrows THEN 2 ELSE 1)
      [] OTHER                 -> tally(0, IF afterThrows THEN 2 ELSE 1,
                                        IF afterThrows THEN 2 ELSE 1)

InitTally ==
    /\ tallyDriver \in {"testBatchApplications", "runBatchApplications"}
    /\ toProcess \in 0..MaxJobs
    /\ processed = 0
    /\ successful = 0
    /\ failed = 0
    /\ records = 0
    /\ lastPass = NoPass
    /\ OutsideTallyIdle

\* testBatchApplications, step 3: one pass of the loop body
TestBatchPass ==
    /\ tallyDriver = "testBatchApplications"
    /\ processed < toProcess
    /\ \E path \in TestPaths, afterThrows \in BOOLEAN :
        LET t == testPassTally(path, reachesCleanup(path) /\ afterThrows)
        IN  /\ successful' = successful + t.successful
            /\ failed' = failed + t.failed
            /\ records' = records + t.records
            /\ lastPass' = [ path |-> path,
                             afterThrows |-> reachesCleanup(path) /\ afterThrows ]
    /\ processed' = processed + 1
    /\ UNCHANGED <<tallyDriver, toProcess, outsideTally>>

\* runBatchApplications: one pass of the loop body
RunBatchPass ==
    /\ tallyDriver = "runBatchApplications"
    /\ processed < toProcess
    /\ \E outcome \in AttemptOutcomes, afterThrows \in BOOLEAN :
        LET reached == outcome # "exception" /\ afterThrows
            t == runBatchPassTally(outcome, reached)
        IN  /\ successful' = successful + t.successful
            /\ failed' = failed + t.failed
            /\ records' = records + t.records
            /\ lastPass' = [ path |-> outcome, afterThrows |-> reached ]
    /\ processed' = processed + 1
    /\ UNCHANGED <<tallyDriver, toProcess, outsideTally>>

NextTally ==
    \/ TestBatchPass
    \/ RunBatchPass

SpecTally == InitTally /\ [][NextTally]_vars

\* C37: every processed job is counted in exactly one of successful and
\* failed and has exactly one result record, so successful + failed and the
\* number of records both equal the number of jobs processed, also when the
\* wait or the cleanup that follows the counting raises.
C37_CountedOnce ==
    /\ successful + failed = processed
    /\ records = processed

(***************************************************************************)
(* ErrorHandler: handle and getErrorKey over the lifetime of one handler   *)
(***************************************************************************)
\* this.maxRetries = 3
maxRetries == 3

ErrorNames == {"Error", "TimeoutError"}
\* context.platform: a platform name, or "" when the context has none
ContextPlatforms == {"JobRight", "Workday", ""}

\* `${error.name}:${context.platform || 'unknown'}`
getErrorKey(name, ctxPlatform) ==
    <<name, ":", IF ctxPlatform = "" THEN "unknown" ELSE ctxPlatform>>

ErrorKeys == { getErrorKey(n, p) : n \in ErrorNames, p \in ContextPlatforms }

\* `shouldRetry: count < this.maxRetries`, count being the occurrences before
shouldRetryInclusive(count) == count <= maxRetries
shouldRetry(count) == count < maxRetries

InitErrors ==
    /\ errorCounts = [ k \in ErrorKeys |-> 0 ]
    /\ retriesAdvised = [ k \in ErrorKeys |-> 0 ]
    /\ lastAdvice = NoAdvice
    /\ handleCalls = 0
    /\ OutsideErrorsIdle

\* handle(error, context)
Handle ==
    /\ handleCalls < MaxHandleCalls
    /\ \E name \in ErrorNames, ctxPlatform \in ContextPlatforms :
        LET errorKey == getErrorKey(name, ctxPlatform)
            count    == errorCounts[errorKey]
        IN  /\ errorCounts' = [ errorCounts EXCEPT ![errorKey] = count + 1 ]
            /\ retriesAdvised' =
                  [ retriesAdvised EXCEPT
                      ![errorKey] = IF shouldRetry(count) THEN @ + 1 ELSE @ ]
            /\ lastAdvice' = [ key |-> errorKey, occurrence |-> count + 1,
                               shouldRetry |-> shouldRetry(count) ]
    /\ handleCalls' = handleCalls + 1
    /\ UNCHANGED outsideErrors

NextErrors == Handle

SpecErrors == InitErrors /\ [][NextErrors]_vars

\* C40: for each error key, handle returns shouldRetry = true for exactly
\* the first 3 occurrences and false for every later one, so the retries
\* advised for a key never exceed 3 over the lifetime of the handler.
C40_RetriesBoundedPerKey ==
    handleCalls > 0 =>
        /\ lastAdvice.shouldRetry <=> lastAdvice.occurrence <= 3
        /\ \A k \in ErrorKeys :
              /\ retriesAdvised[k] <= 3
              /\ retriesAdvised[k] = IF errorCounts[k] <= 3 THEN errorCounts[k] ELSE 3

\* The fifth occurrence of one key is refused after three advised retries,
\* with the key of a context without platform.
C40_Witness ==
    /\ lastAdvice.key = <<"Error", ":", "unknown">>
    /\ lastAdvice.occurrence = 5
    /\ ~lastAdvice.shouldRetry
    /\ retriesAdvised[lastAdvice.key] = 3
====
